---- MODULE Spec2Model ----
(***************************************************************************)
(* MatchaDex: the cafe listing, search, review, favourite and admin        *)
(* visibility handlers, modelled over the relational store they read and   *)
(* write.                                                                  *)
(*                                                                         *)
(* Numbers with two decimals (ratings) are integers counted in hundredths: *)
(* 4.00 is 400.  A database average is the pair <<sum, count>>.  The value *)
(* Null stands for JavaScript null.                                        *)
(***************************************************************************)
EXTENDS Integers, Sequences, FiniteSets, TLC

(***************************************************************************)
(* Bounds of the model.                                                    *)
(***************************************************************************)
NumCafes == 3          \* cafe rows in the store
MaxPageParam == 4      \* largest page number a request asks for
MaxPageSizeParam == 2  \* largest pageSize a request asks for (the cap is PageSizeCap)
NumReviewedCafes == 1  \* cafes that sequential review requests target

Null == -999999

CafeIds == 1..NumCafes
Users == {"u1", "u2"}
Procs == {1, 2}

Min(a, b) == IF a <= b THEN a ELSE b
Max(a, b) == IF a >= b THEN a ELSE b

(***************************************************************************)
(* Rating arithmetic.                                                      *)
(***************************************************************************)

\* Number(value.toFixed(2)) of the non-negative quotient num/den, in hundredths:
\* toFixed picks the nearest two-decimal value and the larger one on a tie.
Round2(num, den) == (200 * num + den) \div (2 * den)

\* The three sums divided by three only, the number of reviews forgotten.
ToAverageOfThreeBad(sumT, sumA, sumS, count) == Round2(sumT + sumA + sumS, 3)

\* toAverage of the mean of the three database averages, each sum/count.
ToAverageOfThree(sumT, sumA, sumS, count) == Round2(sumT + sumA + sumS, 3 * count)

\* The double (averageRating * reviewCount + 15) / (reviewCount + 5) lies below the
\* decimal tie x.xx5 for these (reviewCount, averageRating) pairs, so toFixed(2)
\* gives the lower value there (IEEE-754 evaluation of the expression).
WeightedTieRoundsDown(reviewCount, averageRating) ==
    \/ reviewCount = 1 /\ averageRating = 333
    \/ reviewCount = 3 /\ averageRating \in {256, 456}

weightedMinReviews == 5
priorRating == 3

\* The weighted rating cut to two decimals instead of rounded to them.
ToRoundedWeightedBad(averageRating, reviewCount) ==
    (100 * (averageRating * reviewCount + 100 * priorRating * weightedMinReviews))
        \div (100 * (reviewCount + weightedMinReviews))

\* toRoundedNumber(weightedRating), in hundredths; averageRating in hundredths
\* (0 stands in for null, as `cafe.averageRating ?? 0`).
ToRoundedWeighted(averageRating, reviewCount) ==
    LET num == averageRating * reviewCount + 100 * priorRating * weightedMinReviews
        den == 100 * (reviewCount + weightedMinReviews)
        tie == (200 * num) % (2 * den) = den
    IN  IF tie /\ WeightedTieRoundsDown(reviewCount, averageRating)
        THEN (100 * num) \div den
        ELSE Round2(num, den)

(***************************************************************************)
(* Text: a string is a sequence of characters; "e^" is the letter e with a *)
(* circumflex (U+00EA), "e'" the letter e with an acute accent (U+00E9).   *)
(***************************************************************************)
NameCafe == <<"C", "a", "f", "e">>
NameCafeAccent == <<"C", "a", "f", "e'">>
NameMatcha == <<"M", "a", "t", "c", "h", "a">>
NamePhe == <<"P", "h", "e^">>

\* String.prototype.localeCompare under the default (root) collation: Cafe <
\* Café < Matcha < Phê; equal strings compare 0.
LocaleRank(name) ==
    CASE name = NameCafe -> 1
      [] name = NameCafeAccent -> 2
      [] name = NameMatcha -> 3
      [] name = NamePhe -> 4

LocaleCompare(left, right) == LocaleRank(left) - LocaleRank(right)

\* One character through normalize("NFD"), the removal of \p{Diacritic} and
\* toLowerCase.
NormalizeChar(c) ==
    CASE c \in {"e^", "e'", "E", "e"} -> "e"
      [] c \in {"C", "c"} -> "c"
      [] c \in {"M", "m"} -> "m"
      [] c \in {"P", "p"} -> "p"
      [] c \in {"H", "h"} -> "h"
      [] c \in {"A", "a"} -> "a"
      [] c \in {"T", "t"} -> "t"
      [] c \in {"L", "l"} -> "l"
      [] OTHER -> c

\* Lower-casing alone, the diacritics kept.
normalizeForSearchBad(value) ==
    [i \in 1..Len(value) |->
        IF value[i] \in {"e^", "e'"} THEN value[i] ELSE NormalizeChar(value[i])]

normalizeForSearch(value) == [i \in 1..Len(value) |-> NormalizeChar(value[i])]

\* String.prototype.includes: needle occurs in hay as a contiguous run.
Includes(hay, needle) ==
    \E start \in 0..(Len(hay) - Len(needle)) :
        \A i \in 1..Len(needle) : hay[start + i] = needle[i]

(***************************************************************************)
(* The store: the Cafe, Review, Favorite and User tables.                  *)
(***************************************************************************)
VARIABLES
    cafes,       \* Cafe rows: id -> [name, city, isHidden]
    reviews,     \* Review rows: records with id, userId, cafeId and the values
    favorites,   \* Favorite rows: records with id, userId, cafeId
    users,       \* ids of the callers that have a User row
    adminEmails, \* the callers whose email is in ADMIN_EMAILS
    req,         \* per process: the request being handled, its locals and response
    committed,   \* history: (user, cafe) -> values of the last review upserts of the pair
    rateLimitStore, \* the process-wide Map of rate-limit.ts: key -> [count, windowStart]
    now,         \* Date.now(), in model ticks
    allowedCalls \* history: key -> calls allowed since the key's window started

vars == <<cafes, reviews, favorites, users, adminEmails, req, committed,
          rateLimitStore, now, allowedCalls>>

\* The keys the routes pass to enforceRateLimit, for one client address.
RateLimitKeys == {"reviews:post", "admin:delete-review"}
\* A key the Map holds no entry for.
NoEntry == [count |-> 0, windowStart |-> Null]
\* The Map is empty when the module is first loaded.
EmptyRateLimitStore ==
    /\ rateLimitStore = [key \in RateLimitKeys |-> NoEntry]
    /\ now = 0
    /\ allowedCalls = [key \in RateLimitKeys |-> 0]

Anonymous == "anon"

\* getCurrentPrismaUser() without createIfMissing: the caller's User row, or null.
PrismaUserOf(caller) == IF caller \in users THEN caller ELSE Anonymous

\* All the orders a query without ORDER BY may return the rows of S in.
Orders(S) ==
    {o \in [1..Cardinality(S) -> S] : \A i, j \in 1..Cardinality(S) : o[i] = o[j] => i = j}

CafeRow(id) ==
    [id |-> id, name |-> cafes[id].name, city |-> cafes[id].city,
     isHidden |-> cafes[id].isHidden]

\* prisma.cafe.findMany({ where: { isHidden: false, city: { in: cityFilters } } }):
\* the ids of the matching rows; the city condition only when filters are given.
CafeFindManyVisibleBad(cityFilters) ==
    {id \in DOMAIN cafes : cityFilters = {} \/ cafes[id].city \in cityFilters}

CafeFindManyVisible(cityFilters) ==
    {id \in DOMAIN cafes :
        /\ cafes[id].isHidden = FALSE
        /\ cityFilters = {} \/ cafes[id].city \in cityFilters}

RECURSIVE SumField(_, _)
SumField(rows, field) ==
    IF rows = {} THEN 0
    ELSE LET r == CHOOSE x \in rows : TRUE
         IN  r[field] + SumField(rows \ {r}, field)

ReviewsOf(cafeId) == {r \in reviews : r.cafeId = cafeId}

\* One row of an aggregate over the reviews of a cafe: _count._all and the sums
\* whose quotients by the count are _avg (null when the count is 0).
AggregateOf(cafeId) ==
    LET rows == ReviewsOf(cafeId)
    IN  [cafeId |-> cafeId, count |-> Cardinality(rows),
         sumTaste |-> SumField(rows, "tasteRating"),
         sumAesthetic |-> SumField(rows, "aestheticRating"),
         sumStudy |-> SumField(rows, "studyRating")]

\* prisma.review.groupBy({ by: ["cafeId"], where: { cafeId: { in: cafeIds } } }):
\* one group per cafe id that has at least one review; [] without any id.
ReviewGroupBy(cafeIds) ==
    {AggregateOf(c) : c \in {c \in cafeIds : ReviewsOf(c) # {}}}

(***************************************************************************)
(* Query parameters.                                                       *)
(***************************************************************************)
NoParam == [kind |-> "absent"]                 \* the parameter is not given (or is "")
IntParam(n) == [kind |-> "int", n |-> n]       \* the decimal digits of n, as "2" or "-1"
FracParam(n) == [kind |-> "frac", n |-> n]     \* n followed by a fraction, as "2.5"
JunkParam == [kind |-> "junk"]                 \* text that starts with no digit, as "abc"

\* parsePositiveInt: the fallback for a missing value; Number.parseInt reads the
\* leading integer, so "2.5" parses as 2; null for NaN and for values <= 0.
parsePositiveInt(value, fallbackValue) ==
    CASE value.kind = "absent" -> fallbackValue
      [] value.kind = "junk" -> Null
      [] OTHER -> IF value.n <= 0 THEN Null ELSE value.n

SortAbsent == "<absent>"

\* parseSort: value?.toLowerCase() is "rating" or "popularity", else "rating".
parseSort(value) ==
    IF value \in {"popularity", "Popularity"} THEN "popularity" ELSE "rating"

DefaultPageSize == 6
PageSizeCap == 50

\* parseCityFilters of /api/cafes: the values given (split and trimmed), without
\* the empty ones and "all" in any case, as a set.
IsAllCity(value) == value \in {"All", "all", "ALL"}
parseCityFilters(values) ==
    {values[i] : i \in {i \in 1..Len(values) : values[i] # "" /\ ~IsAllCity(values[i])}}

\* parseCityFilters of /api/cafes/search: as above, with "Bay" and "Bay Area"
\* each expanded to both.
parseCityFiltersExpanded(values) ==
    LET normalized == parseCityFilters(values)
    IN  normalized \cup (IF normalized \cap {"Bay", "Bay Area"} # {}
                         THEN {"Bay", "Bay Area"} ELSE {})

(***************************************************************************)
(* Metrics, score, order and page of a candidate list.                     *)
(***************************************************************************)

\* The averageRating of one group: null when an average is null.
GroupAverage(group) ==
    IF group.count = 0 THEN Null
    ELSE ToAverageOfThree(group.sumTaste, group.sumAesthetic, group.sumStudy, group.count)

\* ratingMap.get(cafe.id) ?? { reviewCount: 0, averageRating: null }
MetricsOf(cafeId, ratingGroups) ==
    IF \E g \in ratingGroups : g.cafeId = cafeId
    THEN LET g == CHOOSE g \in ratingGroups : g.cafeId = cafeId
         IN  [reviewCount |-> g.count, averageRating |-> GroupAverage(g)]
    ELSE [reviewCount |-> 0, averageRating |-> Null]

WeightedRatingOfBad(reviewCount, averageRating) ==
    ToRoundedWeighted(IF averageRating = Null THEN 0 ELSE averageRating, reviewCount)

\* A weighted rating shrunk towards 0 instead of priorRating.
WeightedRatingOfTowardsZero(reviewCount, averageRating) ==
    IF reviewCount = 0 THEN Null
    ELSE Round2((IF averageRating = Null THEN 0 ELSE averageRating) * reviewCount,
                reviewCount + weightedMinReviews)

\* weightedRating: null without reviews, else the rounded shrunk average.
WeightedRatingOf(reviewCount, averageRating) ==
    IF reviewCount = 0 THEN Null
    ELSE ToRoundedWeighted(IF averageRating = Null THEN 0 ELSE averageRating, reviewCount)

\* One element of cafesWithComputedScore.
WithComputedScore(row, ratingGroups) ==
    LET m == MetricsOf(row.id, ratingGroups)
    IN  [id |-> row.id, name |-> row.name, city |-> row.city, isHidden |-> row.isHidden,
         reviewCount |-> m.reviewCount, averageRating |-> m.averageRating,
         weightedRating |-> WeightedRatingOf(m.reviewCount, m.averageRating)]

\* `weightedRating ?? -1`, in hundredths.
WeightedOrMinusOne(cafe) == IF cafe.weightedRating = Null THEN -100 ELSE cafe.weightedRating

CompareCafesBad(leftCafe, rightCafe, sort) ==
    IF WeightedOrMinusOne(leftCafe) # WeightedOrMinusOne(rightCafe)
    THEN WeightedOrMinusOne(rightCafe) - WeightedOrMinusOne(leftCafe)
    ELSE LocaleCompare(leftCafe.name, rightCafe.name)

\* The comparator given to sort: negative when leftCafe goes first.
CompareCafes(leftCafe, rightCafe, sort) ==
    IF sort = "popularity"
    THEN IF leftCafe.reviewCount # rightCafe.reviewCount
         THEN rightCafe.reviewCount - leftCafe.reviewCount
         ELSE IF WeightedOrMinusOne(leftCafe) # WeightedOrMinusOne(rightCafe)
              THEN WeightedOrMinusOne(rightCafe) - WeightedOrMinusOne(leftCafe)
              ELSE LocaleCompare(leftCafe.name, rightCafe.name)
    ELSE IF WeightedOrMinusOne(leftCafe) # WeightedOrMinusOne(rightCafe)
         THEN WeightedOrMinusOne(rightCafe) - WeightedOrMinusOne(leftCafe)
         ELSE IF leftCafe.reviewCount # rightCafe.reviewCount
              THEN rightCafe.reviewCount - leftCafe.reviewCount
              ELSE LocaleCompare(leftCafe.name, rightCafe.name)

\* The place of cafe in a sorted list: behind every element that does not compare
\* after it.
RECURSIVE InsertSorted(_, _, _)
InsertSorted(sorted, cafe, sort) ==
    IF sorted = <<>> THEN <<cafe>>
    ELSE IF CompareCafes(Head(sorted), cafe, sort) <= 0
         THEN <<Head(sorted)>> \o InsertSorted(Tail(sorted), cafe, sort)
         ELSE <<cafe>> \o sorted

\* Array.prototype.sort with the comparator: a stable sort.
RECURSIVE SortCafes(_, _)
SortCafes(list, sort) ==
    IF list = <<>> THEN <<>>
    ELSE InsertSorted(SortCafes(SubSeq(list, 1, Len(list) - 1), sort), list[Len(list)], sort)

CeilDiv(a, b) == (a + b - 1) \div b

\* total, totalPages, safePage, startIndex, the slice and the pagination object.
PageWindow(list, page, pageSize) ==
    LET total == Len(list)
        totalPages == Max(1, CeilDiv(total, pageSize))
        safePage == Min(page, totalPages)
        startIndex == (safePage - 1) * pageSize
    IN  [cafes |-> SubSeq(list, startIndex + 1, Min(startIndex + pageSize, total)),
         pagination |-> [page |-> safePage, pageSize |-> pageSize, total |-> total,
                         totalPages |-> totalPages,
                         hasNextPage |-> safePage < totalPages,
                         hasPreviousPage |-> safePage > 1]]

\* The lookup without its userId: the favorites of every user.
FavoriteCafeIdsBad(viewer, pagedCafes) ==
    IF viewer # Anonymous /\ pagedCafes # <<>>
    THEN {f.cafeId : f \in {f \in favorites :
              \E i \in 1..Len(pagedCafes) : pagedCafes[i].id = f.cafeId}}
    ELSE {}

\* favorite.findMany for the viewer over the ids of the page; no query without a
\* viewer or with an empty page.
FavoriteCafeIds(viewer, pagedCafes) ==
    IF viewer # Anonymous /\ pagedCafes # <<>>
    THEN {f.cafeId : f \in {f \in favorites :
              /\ f.userId = viewer
              /\ \E i \in 1..Len(pagedCafes) : pagedCafes[i].id = f.cafeId}}
    ELSE {}

ListBodyBad(rows, ratingGroups, viewer, page, pageSize, sort) ==
    LET scored == [i \in 1..Len(rows) |-> WithComputedScore(rows[i], ratingGroups)]
        window == PageWindow(scored, page, pageSize)
        sortedPage == SortCafes(window.cafes, sort)
        favoriteCafeIds == FavoriteCafeIds(viewer, sortedPage)
    IN  [status |-> 200,
         cafes |-> [i \in 1..Len(sortedPage) |->
                       [cafe |-> sortedPage[i],
                        isFavorited |-> sortedPage[i].id \in favoriteCafeIds]],
         pagination |-> window.pagination,
         sort |-> sort]

\* The 200 body of list and search from the candidate rows and their groups.
ListBody(rows, ratingGroups, viewer, page, pageSize, sort) ==
    LET scored == [i \in 1..Len(rows) |-> WithComputedScore(rows[i], ratingGroups)]
        window == PageWindow(SortCafes(scored, sort), page, pageSize)
        favoriteCafeIds == FavoriteCafeIds(viewer, window.cafes)
    IN  [status |-> 200,
         cafes |-> [i \in 1..Len(window.cafes) |->
                       [cafe |-> window.cafes[i],
                        isFavorited |-> window.cafes[i].id \in favoriteCafeIds]],
         pagination |-> window.pagination,
         sort |-> sort]

ErrorBody(status, error) == [status |-> status, error |-> error]

(***************************************************************************)
(* Requests.  req[p].pc is "idle" before the first request of process p,   *)
(* the name of the next database call while a handler runs, and "done"     *)
(* with the response in req[p].body once it has answered.                  *)
(***************************************************************************)
Idle == [pc |-> "idle"]
\* A step of a handler that writes no table.
ReadOnly ==
    UNCHANGED <<cafes, reviews, favorites, users, adminEmails, committed,
                rateLimitStore, now, allowedCalls>>
Free(p) == req[p].pc \in {"idle", "done"}
Done(kind, ask, body) == [pc |-> "done", kind |-> kind, ask |-> ask, body |-> body]

\* GET /api/cafes up to its first query: the viewer, the parameters, the 400s.
ListStart(p, caller, cityValues, pageParam, pageSizeParam, sortParam) ==
    /\ Free(p)
    /\ LET page == parsePositiveInt(pageParam, 1)
           pageSize == parsePositiveInt(pageSizeParam, DefaultPageSize)
           ask == [caller |-> caller, city |-> cityValues, page |-> pageParam,
                   pageSize |-> pageSizeParam, sort |-> sortParam]
       IN  req' = [req EXCEPT ![p] =
             IF page = Null
             THEN Done("list", ask, ErrorBody(400, "page must be a positive integer"))
             ELSE IF pageSize = Null \/ pageSize > PageSizeCap
             THEN Done("list", ask, ErrorBody(400, "pageSize must be a positive integer up to 50"))
             ELSE [pc |-> "findMany", kind |-> "list", ask |-> ask,
                   viewer |-> PrismaUserOf(caller),
                   cityFilters |-> parseCityFilters(cityValues),
                   page |-> page, pageSize |-> pageSize, sort |-> parseSort(sortParam)]]
    /\ ReadOnly

\* GET /api/cafes/search up to its first query; q is the trimmed query text.
SearchStart(p, caller, q, cityValues, pageParam, pageSizeParam, sortParam) ==
    /\ Free(p)
    /\ LET page == parsePositiveInt(pageParam, 1)
           pageSize == parsePositiveInt(pageSizeParam, DefaultPageSize)
           ask == [caller |-> caller, q |-> q, city |-> cityValues, page |-> pageParam,
                   pageSize |-> pageSizeParam, sort |-> sortParam]
       IN  req' = [req EXCEPT ![p] =
             IF q = <<>>
             THEN Done("search", ask, ErrorBody(400, "q is required"))
             ELSE IF page = Null
             THEN Done("search", ask, ErrorBody(400, "page must be a positive integer"))
             ELSE IF pageSize = Null \/ pageSize > PageSizeCap
             THEN Done("search", ask, ErrorBody(400, "pageSize must be a positive integer up to 50"))
             ELSE [pc |-> "findMany", kind |-> "search", ask |-> ask,
                   viewer |-> PrismaUserOf(caller),
                   normalizedQuery |-> normalizeForSearch(q),
                   cityFilters |-> parseCityFiltersExpanded(cityValues),
                   page |-> page, pageSize |-> pageSize, sort |-> parseSort(sortParam)]]
    /\ ReadOnly

\* cafe.findMany of the list: the visible rows of the cities, in the order the
\* database returns them.
ListFindMany(p) ==
    /\ req[p].pc = "findMany" /\ req[p].kind = "list"
    /\ \E order \in Orders(CafeFindManyVisible(req[p].cityFilters)) :
         req' = [req EXCEPT ![p] =
                   [req[p] EXCEPT !.pc = "groupBy"] @@
                   [rows |-> [i \in 1..Len(order) |-> CafeRow(order[i])]]]
    /\ ReadOnly

\* cafe.findMany of the search and the filter on the normalized name.
SearchFindMany(p) ==
    /\ req[p].pc = "findMany" /\ req[p].kind = "search"
    /\ \E order \in Orders(CafeFindManyVisible(req[p].cityFilters)) :
         LET found == [i \in 1..Len(order) |-> CafeRow(order[i])]
             matchedCafes ==
                 SelectSeq(found, LAMBDA cafe :
                     Includes(normalizeForSearch(cafe.name), req[p].normalizedQuery))
         IN  req' = [req EXCEPT ![p] =
                       [req[p] EXCEPT !.pc = "groupBy"] @@ [rows |-> matchedCafes]]
    /\ ReadOnly

\* review.groupBy over the candidate ids; no query for an empty candidate list.
ReadGroupBy(p) ==
    /\ req[p].pc = "groupBy"
    /\ LET cafeIds == {req[p].rows[i].id : i \in 1..Len(req[p].rows)}
       IN  req' = [req EXCEPT ![p] =
                     [req[p] EXCEPT !.pc = "respond"] @@
                     [ratingGroups |-> IF cafeIds = {} THEN {} ELSE ReviewGroupBy(cafeIds)]]
    /\ ReadOnly

\* Metrics, score, sort, page, the favorite lookup and the 200 response.
ReadRespond(p) ==
    /\ req[p].pc = "respond"
    /\ req' = [req EXCEPT ![p] =
                 Done(req[p].kind, req[p].ask,
                      ListBody(req[p].rows, req[p].ratingGroups, req[p].viewer,
                               req[p].page, req[p].pageSize, req[p].sort))]
    /\ ReadOnly

(***************************************************************************)
(* Admin visibility.                                                       *)
(***************************************************************************)

\* A guard that lets every authenticated caller through.
AdminGuardBad(requester) ==
    IF adminEmails = {} THEN ErrorBody(500, "admin email list is not configured")
    ELSE IF requester = Anonymous THEN ErrorBody(401, "unauthorized")
    ELSE ErrorBody(0, "")

\* The guard of the admin routes: 500 without a configured list, 401 without an
\* authenticated email, 403 when the email is not listed; 0 when it passes.
AdminGuard(requester) ==
    IF adminEmails = {} THEN ErrorBody(500, "admin email list is not configured")
    ELSE IF requester = Anonymous THEN ErrorBody(401, "unauthorized")
    ELSE IF requester \notin adminEmails THEN ErrorBody(403, "forbidden")
    ELSE ErrorBody(0, "")

\* PATCH /api/admin/cafes/:id with body { isHidden }: cafe.update, 404 for P2025.
AdminPatchCafe(p, requester, cafeId, isHidden) ==
    /\ Free(p)
    /\ LET guard == AdminGuard(requester)
           ask == [caller |-> requester, cafeId |-> cafeId, isHidden |-> isHidden]
       IN  IF guard.status # 0
           THEN /\ req' = [req EXCEPT ![p] = Done("adminPatch", ask, guard)]
                /\ UNCHANGED cafes
           ELSE IF cafeId \notin DOMAIN cafes
           THEN /\ req' = [req EXCEPT ![p] =
                             Done("adminPatch", ask, ErrorBody(404, "cafe not found"))]
                /\ UNCHANGED cafes
           ELSE /\ cafes' = [cafes EXCEPT ![cafeId].isHidden = isHidden]
                /\ req' = [req EXCEPT ![p] =
                             Done("adminPatch", ask,
                                  [status |-> 200,
                                   cafe |-> [id |-> cafeId, isHidden |-> isHidden]])]
    /\ UNCHANGED <<reviews, favorites, users, adminEmails, committed,
                   rateLimitStore, now, allowedCalls>>

\* An update without its where: every row is flagged.
CafeUpdateManyBad(matched, isHidden) ==
    [id \in DOMAIN cafes |-> [cafes[id] EXCEPT !.isHidden = isHidden]]

\* cafe.updateMany({ where: { id: { in: ids } }, data: { isHidden } }): the table
\* after the update of the matched rows.
CafeUpdateMany(matched, isHidden) ==
    [id \in DOMAIN cafes |->
        IF id \in matched THEN [cafes[id] EXCEPT !.isHidden = isHidden] ELSE cafes[id]]

\* POST /api/admin/cafes/bulk with body { ids, action }: ids is the set of the
\* trimmed non-empty ids; cafe.updateMany sets isHidden on the rows it matches.
AdminBulk(p, requester, ids, action) ==
    /\ Free(p)
    /\ LET guard == AdminGuard(requester)
           ask == [caller |-> requester, ids |-> ids, action |-> action]
           isHidden == (action = "delete")
           matched == ids \cap DOMAIN cafes
       IN  IF guard.status # 0
           THEN /\ req' = [req EXCEPT ![p] = Done("adminBulk", ask, guard)]
                /\ UNCHANGED cafes
           ELSE IF ids = {}
           THEN /\ req' = [req EXCEPT ![p] =
                             Done("adminBulk", ask, ErrorBody(400, "ids are required"))]
                /\ UNCHANGED cafes
           ELSE IF action \notin {"delete", "restore"}
           THEN /\ req' = [req EXCEPT ![p] =
                             Done("adminBulk", ask,
                                  ErrorBody(400, "action must be delete or restore"))]
                /\ UNCHANGED cafes
           ELSE /\ cafes' = CafeUpdateMany(matched, isHidden)
                /\ req' = [req EXCEPT ![p] =
                             Done("adminBulk", ask,
                                  [status |-> 200, updatedCount |-> Cardinality(matched),
                                   isHidden |-> isHidden])]
    /\ UNCHANGED <<reviews, favorites, users, adminEmails, committed,
                   rateLimitStore, now, allowedCalls>>

(***************************************************************************)
(* GET /api/admin/cafes with q, showHidden, page and pageSize.             *)
(***************************************************************************)
AdminDefaultPageSize == 25
AdminPageSizeCap == 100

\* The city column as text.
CityText(city) ==
    CASE city = "LA" -> <<"L", "A">>
      [] city = "Bay" -> <<"B", "a", "y">>
      [] city = "Bay Area" -> <<"B", "a", "y", " ", "A", "r", "e", "a">>
      [] OTHER -> <<>>

\* { contains: query, mode: "insensitive" }: the letters compared without their
\* case, the diacritics kept.
InsensitiveChar(c) == IF c \in {"e^", "e'"} THEN c ELSE NormalizeChar(c)
ContainsInsensitive(text, query) ==
    Includes([i \in 1..Len(text) |-> InsensitiveChar(text[i])],
             [i \in 1..Len(query) |-> InsensitiveChar(query[i])])

\* The where of the admin list: the query over name and city (the address
\* column is not part of the model's rows), hidden cafes only with showHidden.
AdminWhere(query, showHidden) ==
    {id \in DOMAIN cafes :
        /\ \/ query = <<>>
           \/ ContainsInsensitive(cafes[id].name, query)
           \/ ContainsInsensitive(CityText(cafes[id].city), query)
        /\ showHidden \/ cafes[id].isHidden = FALSE}

\* orderBy: [{ isHidden: "desc" }, { name: "asc" }]: the orders of the rows that
\* put hidden cafes first and, among cafes equally hidden, names ascending; rows
\* equal on both keep any order.
AdminOrders(S) ==
    {o \in Orders(S) :
        \A i, j \in 1..Cardinality(S) :
            i < j =>
              \/ cafes[o[i]].isHidden /\ ~cafes[o[j]].isHidden
              \/ /\ cafes[o[i]].isHidden = cafes[o[j]].isHidden
                 /\ LocaleCompare(cafes[o[i]].name, cafes[o[j]].name) <= 0}

\* The guard, then the parameters and their 400s, before any query.
AdminListStart(p, requester, query, showHidden, pageParam, pageSizeParam) ==
    /\ Free(p)
    /\ LET guard == AdminGuard(requester)
           page == parsePositiveInt(pageParam, 1)
           pageSize == parsePositiveInt(pageSizeParam, AdminDefaultPageSize)
           ask == [caller |-> requester, q |-> query, showHidden |-> showHidden,
                   page |-> pageParam, pageSize |-> pageSizeParam]
       IN  req' = [req EXCEPT ![p] =
             IF guard.status # 0 THEN Done("adminList", ask, guard)
             ELSE IF page = Null
             THEN Done("adminList", ask, ErrorBody(400, "page must be a positive integer"))
             ELSE IF pageSize = Null \/ pageSize > AdminPageSizeCap
             THEN Done("adminList", ask,
                       ErrorBody(400, "pageSize must be a positive integer up to 100"))
             ELSE [pc |-> "count", kind |-> "adminList", ask |-> ask,
                   page |-> page, pageSize |-> pageSize]]
    /\ ReadOnly

\* prisma.cafe.count({ where }).
AdminListCount(p) ==
    /\ req[p].pc = "count" /\ req[p].kind = "adminList"
    /\ req' = [req EXCEPT ![p] =
                 [req[p] EXCEPT !.pc = "findMany"] @@
                 [total |-> Cardinality(AdminWhere(req[p].ask.q, req[p].ask.showHidden))]]
    /\ ReadOnly

\* prisma.cafe.findMany with orderBy, skip and take, and the 200 response.
AdminListFindMany(p) ==
    /\ req[p].pc = "findMany" /\ req[p].kind = "adminList"
    /\ LET total == req[p].total
           pageSize == req[p].pageSize
           totalPages == Max(1, CeilDiv(total, pageSize))
           safePage == Min(req[p].page, totalPages)
           skip == (safePage - 1) * pageSize
       IN  \E order \in AdminOrders(AdminWhere(req[p].ask.q, req[p].ask.showHidden)) :
             LET taken == SubSeq(order, skip + 1, Min(skip + pageSize, Len(order)))
             IN  req' = [req EXCEPT ![p] =
                   Done("adminList", req[p].ask,
                        [status |-> 200,
                         cafes |-> [i \in 1..Len(taken) |->
                                      CafeRow(taken[i]) @@
                                      [reviewCount |-> Cardinality(ReviewsOf(taken[i]))]],
                         pagination |-> [page |-> safePage, pageSize |-> pageSize,
                                         total |-> total, totalPages |-> totalPages,
                                         hasNextPage |-> safePage < totalPages,
                                         hasPreviousPage |-> safePage > 1]])]
    /\ ReadOnly

\* DELETE /api/admin/reviews/:id: the rate limit, the guard, the 400 for a blank
\* id, review.delete and the 404 for P2025.
BlankReviewId == Null
AdminDeleteReview(p, requester, allowed, reviewId) ==
    /\ Free(p)
    /\ LET guard == AdminGuard(requester)
           ask == [caller |-> requester, reviewId |-> reviewId]
           matched == {r \in reviews : r.id = reviewId}
       IN  IF ~allowed
           THEN /\ req' = [req EXCEPT ![p] =
                     Done("adminDeleteReview", ask,
                          ErrorBody(429, "too many requests, please try again shortly"))]
                /\ UNCHANGED reviews
           ELSE IF guard.status # 0
           THEN /\ req' = [req EXCEPT ![p] = Done("adminDeleteReview", ask, guard)]
                /\ UNCHANGED reviews
           ELSE IF reviewId = BlankReviewId
           THEN /\ req' = [req EXCEPT ![p] =
                     Done("adminDeleteReview", ask, ErrorBody(400, "review id is required"))]
                /\ UNCHANGED reviews
           ELSE IF matched = {}
           THEN /\ req' = [req EXCEPT ![p] =
                     Done("adminDeleteReview", ask, ErrorBody(404, "review not found"))]
                /\ UNCHANGED reviews
           ELSE /\ reviews' = reviews \ matched
                /\ req' = [req EXCEPT ![p] =
                     Done("adminDeleteReview", ask,
                          [status |-> 200,
                           deletedReview |-> CHOOSE r \in matched : TRUE])]
    /\ UNCHANGED <<cafes, favorites, users, adminEmails, committed,
                   rateLimitStore, now, allowedCalls>>

(***************************************************************************)
(* The leaderboard page.                                                   *)
(***************************************************************************)
LeaderboardSize == 20

\* `overallRating ?? -1`, in hundredths.
OverallOrMinusOne(cafe) == IF cafe.overallRating = Null THEN -100 ELSE cafe.overallRating

\* The comparator of rankedCafes: overallRating descending, then reviewCount
\* descending.
CompareRanked(leftCafe, rightCafe) ==
    IF OverallOrMinusOne(rightCafe) # OverallOrMinusOne(leftCafe)
    THEN OverallOrMinusOne(rightCafe) - OverallOrMinusOne(leftCafe)
    ELSE rightCafe.reviewCount - leftCafe.reviewCount

RECURSIVE InsertRanked(_, _)
InsertRanked(sorted, cafe) ==
    IF sorted = <<>> THEN <<cafe>>
    ELSE IF CompareRanked(Head(sorted), cafe) <= 0
         THEN <<Head(sorted)>> \o InsertRanked(Tail(sorted), cafe)
         ELSE <<cafe>> \o sorted

RECURSIVE SortRanked(_)
SortRanked(list) ==
    IF list = <<>> THEN <<>>
    ELSE InsertRanked(SortRanked(SubSeq(list, 1, Len(list) - 1)), list[Len(list)])

\* cafes.map(...).filter(reviewCount > 0).sort(...).slice(0, 20).
RankedCafes(rows, ratingGroups) ==
    LET rated == [i \in 1..Len(rows) |->
                    LET m == MetricsOf(rows[i].id, ratingGroups)
                    IN  rows[i] @@ [reviewCount |-> m.reviewCount,
                                    overallRating |-> m.averageRating]]
        reviewed == SelectSeq(rated, LAMBDA cafe : cafe.reviewCount > 0)
        sorted == SortRanked(reviewed)
    IN  SubSeq(sorted, 1, Min(LeaderboardSize, Len(sorted)))

\* prisma.cafe.findMany() of the page: every cafe row, in the order of the
\* database.
LeaderboardFindMany(p) ==
    /\ Free(p)
    /\ \E order \in Orders(DOMAIN cafes) :
         req' = [req EXCEPT ![p] =
                   [pc |-> "rankGroupBy", kind |-> "leaderboard", ask |-> [caller |-> Anonymous],
                    rows |-> [i \in 1..Len(order) |-> CafeRow(order[i])]]]
    /\ ReadOnly

\* review.groupBy over the ids read, then the ranked list the page renders.
LeaderboardGroupBy(p) ==
    /\ req[p].pc = "rankGroupBy" /\ req[p].kind = "leaderboard"
    /\ LET cafeIds == {req[p].rows[i].id : i \in 1..Len(req[p].rows)}
           ratingGroups == IF cafeIds = {} THEN {} ELSE ReviewGroupBy(cafeIds)
       IN  req' = [req EXCEPT ![p] =
                     Done("leaderboard", req[p].ask,
                          [status |-> 200,
                           rankedCafes |-> RankedCafes(req[p].rows, ratingGroups)])]
    /\ ReadOnly

(***************************************************************************)
(* The catalogue the store starts from: the cafes an import has created.   *)
(***************************************************************************)
CatalogName(id) ==
    CASE id % 4 = 1 -> NameMatcha
      [] id % 4 = 2 -> NamePhe
      [] id % 4 = 3 -> NameMatcha
      [] OTHER -> NameCafe

CatalogCity(id) ==
    CASE id % 4 = 1 -> "LA"
      [] id % 4 = 2 -> "Bay"
      [] id % 4 = 3 -> "Bay Area"
      [] OTHER -> "LA"

\* The googlePlaceId of the place a catalog row was imported from, and where it is.
PlaceId(n) == 1000 + n
AddressOf(n) == <<"addr", n>>

Catalog == [id \in CafeIds |-> [name |-> CatalogName(id), city |-> CatalogCity(id),
                                isHidden |-> FALSE,
                                googlePlaceId |-> PlaceId(id), address |-> AddressOf(id),
                                latitude |-> id, longitude |-> 0 - id]]

MissingCafeId == NumCafes + 1

NoCommitted == [pair \in Users \X (CafeIds \cup {MissingCafeId}) |-> <<>>]

(***************************************************************************)
(* Visibility: admins hide and restore cafes while the list and the search *)
(* are read.                                                               *)
(***************************************************************************)
InitVisibility ==
    /\ EmptyRateLimitStore
    /\ cafes = Catalog
    /\ reviews = {}
    /\ favorites = {}
    /\ users = Users
    /\ adminEmails = {"u1"}
    /\ req = [p \in Procs |-> Idle]
    /\ committed = NoCommitted

NextVisibility ==
    \/ \E pageSize \in {NoParam, IntParam(1)} :
         ListStart(1, Anonymous, <<>>, NoParam, pageSize, SortAbsent)
    \/ \E q \in {<<"a">>, <<"p", "h", "e">>, <<"P", "H", "e'">>} :
         SearchStart(1, Anonymous, q, <<"Bay">>, NoParam, NoParam, "popularity")
    \/ SearchStart(1, Anonymous, <<"a">>, <<"All">>, IntParam(2), IntParam(1), SortAbsent)
    \/ ListFindMany(1)
    \/ SearchFindMany(1)
    \/ ReadGroupBy(1)
    \/ ReadRespond(1)
    \/ \E cafeId \in CafeIds \cup {MissingCafeId}, isHidden \in BOOLEAN :
         AdminPatchCafe(2, "u1", cafeId, isHidden)
    \/ \E ids \in {{1}, {2, 3}, {1, MissingCafeId}, CafeIds},
          action \in {"delete", "restore"} :
         AdminBulk(2, "u1", ids, action)

SpecVisibility == InitVisibility /\ [][NextVisibility]_vars

(***************************************************************************)
(* C1: hidden cafes stay out of the list and the search.                   *)
(***************************************************************************)
IsReadDone(p) ==
    /\ req[p].pc = "done"
    /\ req[p].kind \in {"list", "search"}
    /\ req[p].body.status = 200

NullText == "<null>"
LongText == "<501 characters>"

\* String.prototype.trim of the comments the model submits.
Trim(text) == IF text \in {" good ", "good"} THEN "good" ELSE text
TrimmedLength(text) ==
    CASE text = LongText -> 501
      [] Trim(text) = "good" -> 4
      [] OTHER -> 0

\* isValidRating: a number that is an integer from 1 to 5 (Null: no number).
isValidRating(value) == value # Null /\ value >= 1 /\ value <= 5

\* The first failed validation of the body, or "" when it passes.
ReviewBodyError(body) ==
    CASE body.cafeId = Null -> "cafeId is required"
      [] ~isValidRating(body.tasteRating) -> "tasteRating must be an integer from 1 to 5"
      [] ~isValidRating(body.aestheticRating) -> "aestheticRating must be an integer from 1 to 5"
      [] ~isValidRating(body.studyRating) -> "studyRating must be an integer from 1 to 5"
      [] body.priceEstimate # Null /\ body.priceEstimate < 0 ->
            "priceEstimate must be a positive number"
      [] body.textComment # NullText /\ TrimmedLength(body.textComment) > 500 ->
            "textComment must be 500 characters or less"
      [] OTHER -> ""

\* The values the upsert writes, in its update and in its create branch alike.
ReviewValues(body) ==
    [tasteRating |-> body.tasteRating, aestheticRating |-> body.aestheticRating,
     studyRating |-> body.studyRating, priceEstimate |-> body.priceEstimate,
     textComment |-> IF body.textComment = NullText \/ Trim(body.textComment) = ""
                     THEN NullText ELSE Trim(body.textComment)]

ValuesOfRow(row) ==
    [tasteRating |-> row.tasteRating, aestheticRating |-> row.aestheticRating,
     studyRating |-> row.studyRating, priceEstimate |-> row.priceEstimate,
     textComment |-> row.textComment]

ReviewRowsOf(userId, cafeId) == {r \in reviews : r.userId = userId /\ r.cafeId = cafeId}

\* A new row id (a cuid): one no row holds.
FreshId(rows) == CHOOSE id \in 1..(Cardinality(rows) + 1) : \A r \in rows : r.id # id

NewReviewRow(userId, cafeId, values) ==
    [id |-> FreshId(reviews), userId |-> userId, cafeId |-> cafeId] @@ values

ReviewUniqueViolationBad(userId, cafeId) == FALSE

\* The unique index Review_userId_cafeId_key rejects a second row of a pair.
ReviewUniqueViolation(userId, cafeId) == ReviewRowsOf(userId, cafeId) # {}

UpdatedReviewsBad(userId, cafeId, values) ==
    {IF r.userId = userId /\ r.cafeId = cafeId
     THEN [r EXCEPT !.tasteRating = values.tasteRating,
                    !.aestheticRating = values.aestheticRating,
                    !.studyRating = values.studyRating]
     ELSE r : r \in reviews}

\* The update branch of the upsert: the row of the pair with the new values.
UpdatedReviews(userId, cafeId, values) ==
    {IF r.userId = userId /\ r.cafeId = cafeId
     THEN [id |-> r.id, userId |-> userId, cafeId |-> cafeId] @@ values
     ELSE r : r \in reviews}

\* The row review.upsert resolves to: the updated row of the pair, or the new one.
UpsertedReview(userId, cafeId, values) ==
    IF ReviewRowsOf(userId, cafeId) # {}
    THEN [id |-> (CHOOSE r \in ReviewRowsOf(userId, cafeId) : TRUE).id,
          userId |-> userId, cafeId |-> cafeId] @@ values
    ELSE NewReviewRow(userId, cafeId, values)

\* averageRatings of the 201 response, from review.aggregate over the cafe.
AverageRatings(cafeId) ==
    LET a == AggregateOf(cafeId)
    IN  [reviewCount |-> a.count,
         tasteRating |-> IF a.count = 0 THEN Null ELSE Round2(a.sumTaste, a.count),
         aestheticRating |-> IF a.count = 0 THEN Null ELSE Round2(a.sumAesthetic, a.count),
         studyRating |-> IF a.count = 0 THEN Null ELSE Round2(a.sumStudy, a.count),
         overallRating |-> IF a.count = 0 THEN Null
                           ELSE ToAverageOfThree(a.sumTaste, a.sumAesthetic, a.sumStudy,
                                                 a.count)]

\* History of the upserts of a pair that went through: the values last written
\* and, before them, the values they replaced when those were different.
Commit(pair, values) ==
    [committed EXCEPT ![pair] =
        IF @ = <<>> \/ @[Len(@)] = values THEN <<values>> ELSE <<@[Len(@)], values>>]

\* POST /api/reviews up to the validation: the rate limiter's verdict for the
\* client (allowed), the user upsert of getCurrentPrismaUser({ createIfMissing }),
\* the checks of the body.
PostReviewStart(p, caller, allowed, body) ==
    /\ Free(p)
    /\ LET ask == [caller |-> caller, body |-> body]
           error == ReviewBodyError(body)
       IN  IF ~allowed
           THEN /\ req' = [req EXCEPT ![p] =
                    Done("postReview", ask,
                         ErrorBody(429, "too many requests, please try again shortly"))]
                /\ UNCHANGED users
           ELSE IF caller = Anonymous
           THEN /\ req' = [req EXCEPT ![p] =
                    Done("postReview", ask, ErrorBody(401, "unauthorized"))]
                /\ UNCHANGED users
           ELSE /\ users' = users \cup {caller}
                /\ req' = [req EXCEPT ![p] =
                    IF error # ""
                    THEN Done("postReview", ask, ErrorBody(400, error))
                    ELSE [pc |-> "findCafe", kind |-> "postReview", ask |-> ask,
                          userId |-> caller, cafeId |-> body.cafeId,
                          values |-> ReviewValues(body)]]
    /\ UNCHANGED <<cafes, reviews, favorites, adminEmails, committed,
                   rateLimitStore, now, allowedCalls>>

\* cafe.findUnique: 404 without the cafe.
PostReviewFindCafe(p) ==
    /\ req[p].pc = "findCafe" /\ req[p].kind = "postReview"
    /\ req' = [req EXCEPT ![p] =
         IF req[p].cafeId \in DOMAIN cafes
         THEN [req[p] EXCEPT !.pc = "upsert"]
         ELSE Done("postReview", req[p].ask, ErrorBody(404, "cafe not found"))]
    /\ ReadOnly

\* review.upsert run by the database as one statement (INSERT .. ON CONFLICT ..
\* DO UPDATE): the row of the pair is updated, or created when there is none.
PostReviewUpsert(p) ==
    /\ req[p].pc = "upsert" /\ req[p].kind = "postReview"
    /\ LET u == req[p].userId
           c == req[p].cafeId
       IN  /\ reviews' = IF ReviewRowsOf(u, c) # {}
                         THEN UpdatedReviews(u, c, req[p].values)
                         ELSE reviews \cup {NewReviewRow(u, c, req[p].values)}
           /\ committed' = Commit(<<u, c>>, req[p].values)
           /\ req' = [req EXCEPT ![p] =
                        [req[p] EXCEPT !.pc = "aggregate"] @@
                        [review |-> UpsertedReview(u, c, req[p].values)]]
    /\ UNCHANGED <<cafes, favorites, users, adminEmails,
                   rateLimitStore, now, allowedCalls>>

\* review.upsert run by the client as a read followed by a write: the read.
PostReviewUpsertRead(p) ==
    /\ req[p].pc = "upsert" /\ req[p].kind = "postReview"
    /\ req' = [req EXCEPT ![p] =
                 [req[p] EXCEPT !.pc = "upsertWrite"] @@
                 [found |-> ReviewRowsOf(req[p].userId, req[p].cafeId) # {}]]
    /\ ReadOnly

\* ... and the write: an update of the row read (P2025 when it is gone), or a
\* create (P2002 when the unique index rejects it); both errors answer 500.
PostReviewUpsertWrite(p) ==
    /\ req[p].pc = "upsertWrite" /\ req[p].kind = "postReview"
    /\ LET u == req[p].userId
           c == req[p].cafeId
           failed == IF req[p].found THEN ReviewRowsOf(u, c) = {}
                     ELSE ReviewUniqueViolation(u, c)
       IN  IF failed
           THEN /\ req' = [req EXCEPT ![p] =
                    Done("postReview", req[p].ask, ErrorBody(500, "failed to save review"))]
                /\ UNCHANGED <<reviews, committed>>
           ELSE /\ reviews' = IF req[p].found
                              THEN UpdatedReviews(u, c, req[p].values)
                              ELSE reviews \cup {NewReviewRow(u, c, req[p].values)}
                /\ committed' = Commit(<<u, c>>, req[p].values)
                /\ req' = [req EXCEPT ![p] =
                             [req[p] EXCEPT !.pc = "aggregate"] @@
                             [review |-> UpsertedReview(u, c, req[p].values)]]
    /\ UNCHANGED <<cafes, favorites, users, adminEmails,
                   rateLimitStore, now, allowedCalls>>

\* review.aggregate over the cafe and the 201 response.
PostReviewAggregate(p) ==
    /\ req[p].pc = "aggregate" /\ req[p].kind = "postReview"
    /\ req' = [req EXCEPT ![p] =
         Done("postReview", req[p].ask,
              [status |-> 201,
               review |-> req[p].review,
               averageRatings |-> AverageRatings(req[p].cafeId)])]
    /\ ReadOnly

(***************************************************************************)
(* DELETE /api/reviews/:id.                                                *)
(***************************************************************************)
ReviewById(reviewId) == {r \in reviews : r.id = reviewId}

\* An ownership test that lets every signed-in user through.
IsReviewOwnerBad(review, prismaUser) == TRUE

\* review.userId === prismaUser.id
IsReviewOwner(review, prismaUser) == review.userId = prismaUser

\* DELETE up to review.findUnique: the user lookup, the 400 for a blank id and
\* the 401 without a User row.
DeleteReviewStart(p, caller, reviewId) ==
    /\ Free(p)
    /\ LET ask == [caller |-> caller, reviewId |-> reviewId]
       IN  req' = [req EXCEPT ![p] =
                IF reviewId = Null
                THEN Done("deleteReview", ask, ErrorBody(400, "review id is required"))
                ELSE IF PrismaUserOf(caller) = Anonymous
                THEN Done("deleteReview", ask, ErrorBody(401, "unauthorized"))
                ELSE [pc |-> "findReview", kind |-> "deleteReview", ask |-> ask,
                      viewer |-> PrismaUserOf(caller), reviewId |-> reviewId]]
    /\ ReadOnly

\* review.findUnique: 404 without the row, 403 when it belongs to someone else.
DeleteReviewFindUnique(p) ==
    /\ req[p].pc = "findReview" /\ req[p].kind = "deleteReview"
    /\ LET found == ReviewById(req[p].reviewId)
       IN  req' = [req EXCEPT ![p] =
             IF found = {}
             THEN Done("deleteReview", req[p].ask, ErrorBody(404, "review not found"))
             ELSE IF ~IsReviewOwner(CHOOSE r \in found : TRUE, req[p].viewer)
             THEN Done("deleteReview", req[p].ask, ErrorBody(403, "forbidden"))
             ELSE [req[p] EXCEPT !.pc = "deleteReview"]]
    /\ ReadOnly

\* A delete whose P2025 is not told apart from other errors.
DeleteReviewDeleteBad(p) ==
    /\ req[p].pc = "deleteReview" /\ req[p].kind = "deleteReview"
    /\ LET found == ReviewById(req[p].reviewId)
       IN  IF found = {}
           THEN /\ req' = [req EXCEPT ![p] =
                    Done("deleteReview", req[p].ask, ErrorBody(500, "failed to delete review"))]
                /\ UNCHANGED reviews
           ELSE /\ reviews' = reviews \ found
                /\ req' = [req EXCEPT ![p] =
                    Done("deleteReview", req[p].ask,
                         [status |-> 200, deletedReview |-> CHOOSE r \in found : TRUE])]
    /\ UNCHANGED <<cafes, favorites, users, adminEmails, committed,
                   rateLimitStore, now, allowedCalls>>

\* review.delete: the 200 with the deleted row, the 404 for P2025 when the row
\* has gone since it was read.
DeleteReviewDelete(p) ==
    /\ req[p].pc = "deleteReview" /\ req[p].kind = "deleteReview"
    /\ LET found == ReviewById(req[p].reviewId)
       IN  IF found = {}
           THEN /\ req' = [req EXCEPT ![p] =
                    Done("deleteReview", req[p].ask, ErrorBody(404, "review not found"))]
                /\ UNCHANGED reviews
           ELSE /\ reviews' = reviews \ found
                /\ req' = [req EXCEPT ![p] =
                    Done("deleteReview", req[p].ask,
                         [status |-> 200, deletedReview |-> CHOOSE r \in found : TRUE])]
    /\ UNCHANGED <<cafes, favorites, users, adminEmails, committed,
                   rateLimitStore, now, allowedCalls>>

(***************************************************************************)
(* Reviews submitted one request after the other.                          *)
(***************************************************************************)
ReviewedCafeIds == 1..NumReviewedCafes

ReviewBody(cafeId, rating, price, comment) ==
    [cafeId |-> cafeId, tasteRating |-> rating, aestheticRating |-> rating,
     studyRating |-> rating, priceEstimate |-> price, textComment |-> comment]

\* The bodies submitted: two that pass, one whose taste rating is out of range.
SubmittedBodies(cafeId) ==
    {ReviewBody(cafeId, 5, 4, " good "), ReviewBody(cafeId, 3, Null, ""),
     ReviewBody(cafeId, 6, Null, NullText)}

InitReviews ==
    /\ EmptyRateLimitStore
    /\ cafes = Catalog
    /\ reviews = {}
    /\ favorites = {}
    /\ users \in {{}, {"u2"}}
    /\ adminEmails = {"u1"}
    /\ req = [p \in Procs |-> Idle]
    /\ committed = NoCommitted

NextReviews ==
    \/ \E cafeId \in ReviewedCafeIds :
         \/ \E body \in SubmittedBodies(cafeId) : PostReviewStart(1, "u1", TRUE, body)
         \/ PostReviewStart(1, "u2", TRUE, ReviewBody(cafeId, 5, 4, " good "))
    \/ \E caller \in {Anonymous, "u1"}, allowed \in BOOLEAN :
         /\ caller = Anonymous \/ ~allowed
         /\ PostReviewStart(1, caller, allowed, ReviewBody(1, 5, 4, "good"))
    \/ \E body \in {ReviewBody(MissingCafeId, 5, 4, "good"), ReviewBody(1, 5, 4, LongText),
                      ReviewBody(Null, 5, 4, "good"), ReviewBody(1, 5, -1, "good")} :
         PostReviewStart(1, "u1", TRUE, body)
    \/ PostReviewFindCafe(1)
    \/ PostReviewUpsert(1)
    \/ PostReviewUpsertRead(1)
    \/ PostReviewUpsertWrite(1)
    \/ PostReviewAggregate(1)

SpecReviews == InitReviews /\ [][NextReviews]_vars

(***************************************************************************)
(* Reviews of one cafe submitted by two request handlers at once.          *)
(***************************************************************************)
NextReviewRace ==
    \E p \in Procs :
        \/ \E caller \in Users, body \in SubmittedBodies(1) :
             PostReviewStart(p, caller, TRUE, body)
        \/ PostReviewFindCafe(p)
        \/ PostReviewUpsert(p)
        \/ PostReviewUpsertRead(p)
        \/ PostReviewUpsertWrite(p)
        \/ PostReviewAggregate(p)

SpecReviewRace == InitReviews /\ [][NextReviewRace]_vars
(***************************************************************************)
(* C2: a POST /api/reviews that passes validation upserts on (userId,      *)
(* cafeId).  After any sequence of answered submissions every pair that    *)
(* has submitted holds exactly one Review row, carrying the values of its  *)
(* latest submission (a pair that has not submitted holds none); the       *)
(* review count of a cafe is the number of pairs that have submitted to    *)
(* it, so a resubmission leaves it unchanged; the 201 response carries the *)
(* row written from the request body and that count.                       *)
(***************************************************************************)
SubmittedPairsOf(cafeId) == {u \in Users : committed[<<u, cafeId>>] # <<>>}

C2_UpsertKeepsOneRow ==
    /\ \A u \in Users, c \in CafeIds :
         LET rows == ReviewRowsOf(u, c)
             history == committed[<<u, c>>]
         IN  IF history = <<>>
             THEN rows = {}
             ELSE /\ Cardinality(rows) = 1
                  /\ \A r \in rows : ValuesOfRow(r) = history[Len(history)]
    /\ \A c \in CafeIds : AggregateOf(c).count = Cardinality(SubmittedPairsOf(c))
    /\ ( /\ req[1].pc = "done" /\ req[1].kind = "postReview"
         /\ req[1].body.status = 201 )
       => LET ask == req[1].ask
              rows == ReviewRowsOf(ask.caller, ask.body.cafeId)
          IN  /\ rows = {req[1].body.review}
              /\ ValuesOfRow(req[1].body.review) = ReviewValues(ask.body)
              /\ req[1].body.averageRatings.reviewCount
                   = Cardinality(SubmittedPairsOf(ask.body.cafeId))

\* A user has resubmitted with other values while another user's review of the
\* same cafe stands: one row for the resubmitting pair, two reviews counted.
C2_Witness ==
    /\ req[1].pc = "done" /\ req[1].kind = "postReview" /\ req[1].body.status = 201
    /\ req[1].ask.caller = "u1" /\ req[1].ask.body.cafeId = 1
    /\ Len(committed[<<"u1", 1>>]) = 2
    /\ committed[<<"u1", 1>>][1] # committed[<<"u1", 1>>][2]
    /\ committed[<<"u2", 1>>] # <<>>
    /\ Cardinality(ReviewRowsOf("u1", 1)) = 1
    /\ req[1].body.averageRatings.reviewCount = 2

(***************************************************************************)
(* C3: two POST /api/reviews running at once for the same (user, cafe)     *)
(* pair never leave two Review rows for the pair: at every moment a pair   *)
(* holds at most one row, and once both requests have answered, one of     *)
(* them with 201, the pair holds exactly one row whose values are those of *)
(* a request answered 201.                                                 *)
(***************************************************************************)
ReviewAnswered(p) ==
    /\ req[p].pc = "done" /\ req[p].kind = "postReview"
    /\ req[p].body.status \in {201, 500}

C3_ConcurrentSubmissionsOneRow ==
    /\ \A u \in Users, c \in CafeIds : Cardinality(ReviewRowsOf(u, c)) <= 1
    /\ ( /\ ReviewAnswered(1) /\ ReviewAnswered(2)
         /\ req[1].ask.caller = req[2].ask.caller
         /\ req[1].ask.body.cafeId = req[2].ask.body.cafeId
         /\ \E p \in Procs : req[p].body.status = 201 )
       => LET rows == ReviewRowsOf(req[1].ask.caller, req[1].ask.body.cafeId)
          IN  /\ Cardinality(rows) = 1
              /\ \A r \in rows :
                   \E p \in Procs : /\ req[p].body.status = 201
                                    /\ ValuesOfRow(r) = ReviewValues(req[p].ask.body)

\* Both requests of the pair read "no row" before either wrote: one created
\* the row and answered 201, the unique index refused the other (500).
C3_Witness ==
    /\ ReviewAnswered(1) /\ ReviewAnswered(2)
    /\ req[1].ask.caller = "u1" /\ req[2].ask.caller = "u1"
    /\ req[1].body.status = 201 /\ req[2].body.status = 500
    /\ req[1].ask.body # req[2].ask.body
    /\ Cardinality(ReviewRowsOf("u1", 1)) = 1

(***************************************************************************)
(* Favorites: POST and DELETE /api/cafes/[id]/favorite.                    *)
(***************************************************************************)
FavoriteRowsOf(userId, cafeId) ==
    {f \in favorites : f.userId = userId /\ f.cafeId = cafeId}

NewFavoriteRow(userId, cafeId) ==
    [id |-> FreshId(favorites), userId |-> userId, cafeId |-> cafeId]

\* The unique index Favorite_userId_cafeId_key rejects a second row of a pair.
FavoriteUniqueViolation(userId, cafeId) == FavoriteRowsOf(userId, cafeId) # {}

FavoriteDeleteManyBad(userId, cafeId) == {f \in favorites : f.userId # userId}

\* favorite.deleteMany({ where: { userId, cafeId } }): the rows that remain.
FavoriteDeleteMany(userId, cafeId) == favorites \ FavoriteRowsOf(userId, cafeId)

\* The route parameter after id?.trim(); Null stands for a blank id.
BlankCafeId == Null

\* POST up to its first query on the cafe: the user upsert of
\* getCurrentPrismaUser({ createIfMissing: true }), then the 400 and the 401.
PostFavoriteStart(p, caller, cafeId) ==
    /\ Free(p)
    /\ LET ask == [caller |-> caller, cafeId |-> cafeId]
       IN  /\ users' = IF caller = Anonymous THEN users ELSE users \cup {caller}
           /\ req' = [req EXCEPT ![p] =
                IF cafeId = BlankCafeId
                THEN Done("postFavorite", ask, ErrorBody(400, "cafe id is required"))
                ELSE IF caller = Anonymous
                THEN Done("postFavorite", ask, ErrorBody(401, "unauthorized"))
                ELSE [pc |-> "findCafe", kind |-> "postFavorite", ask |-> ask,
                      userId |-> caller, cafeId |-> cafeId]]
    /\ UNCHANGED <<cafes, reviews, favorites, adminEmails, committed,
                   rateLimitStore, now, allowedCalls>>

\* cafe.findUnique: 404 without the cafe.
PostFavoriteFindCafe(p) ==
    /\ req[p].pc = "findCafe" /\ req[p].kind = "postFavorite"
    /\ req' = [req EXCEPT ![p] =
         IF req[p].cafeId \in DOMAIN cafes
         THEN [req[p] EXCEPT !.pc = "upsert"]
         ELSE Done("postFavorite", req[p].ask, ErrorBody(404, "cafe not found"))]
    /\ ReadOnly

\* The 200 of POST; existed records whether the upsert found the row of the pair.
FavoritedBody(existed) == [status |-> 200, isFavorited |-> TRUE, existed |-> existed]

\* favorite.upsert with update: {} run by the database as one statement.
PostFavoriteUpsert(p) ==
    /\ req[p].pc = "upsert" /\ req[p].kind = "postFavorite"
    /\ LET u == req[p].userId
           c == req[p].cafeId
           existed == FavoriteRowsOf(u, c) # {}
       IN  /\ favorites' = IF existed THEN favorites
                           ELSE favorites \cup {NewFavoriteRow(u, c)}
           /\ req' = [req EXCEPT ![p] =
                        Done("postFavorite", req[p].ask, FavoritedBody(existed))]
    /\ UNCHANGED <<cafes, reviews, users, adminEmails, committed,
                   rateLimitStore, now, allowedCalls>>

\* favorite.upsert run by the client as a read followed by a write: the read.
PostFavoriteUpsertRead(p) ==
    /\ req[p].pc = "upsert" /\ req[p].kind = "postFavorite"
    /\ req' = [req EXCEPT ![p] =
                 [req[p] EXCEPT !.pc = "upsertWrite"] @@
                 [found |-> FavoriteRowsOf(req[p].userId, req[p].cafeId) # {}]]
    /\ ReadOnly

\* ... and the write: the empty update of the row read (P2025 when it is gone)
\* or the create (P2002 when the unique index rejects it); both answer 500.
PostFavoriteUpsertWrite(p) ==
    /\ req[p].pc = "upsertWrite" /\ req[p].kind = "postFavorite"
    /\ LET u == req[p].userId
           c == req[p].cafeId
           failed == IF req[p].found THEN FavoriteRowsOf(u, c) = {}
                     ELSE FavoriteUniqueViolation(u, c)
       IN  IF failed
           THEN /\ req' = [req EXCEPT ![p] =
                    Done("postFavorite", req[p].ask,
                         ErrorBody(500, "failed to favorite cafe"))]
                /\ UNCHANGED favorites
           ELSE /\ favorites' = IF req[p].found THEN favorites
                                ELSE favorites \cup {NewFavoriteRow(u, c)}
                /\ req' = [req EXCEPT ![p] =
                    Done("postFavorite", req[p].ask, FavoritedBody(req[p].found))]
    /\ UNCHANGED <<cafes, reviews, users, adminEmails, committed,
                   rateLimitStore, now, allowedCalls>>

\* DELETE up to deleteMany: getCurrentPrismaUser() only looks the user up, so a
\* signed-in caller who has no User row yet is answered 401 like an anonymous one.
DeleteFavoriteStart(p, caller, cafeId) ==
    /\ Free(p)
    /\ LET ask == [caller |-> caller, cafeId |-> cafeId]
       IN  req' = [req EXCEPT ![p] =
                IF cafeId = BlankCafeId
                THEN Done("deleteFavorite", ask, ErrorBody(400, "cafe id is required"))
                ELSE IF PrismaUserOf(caller) = Anonymous
                THEN Done("deleteFavorite", ask, ErrorBody(401, "unauthorized"))
                ELSE [pc |-> "deleteMany", kind |-> "deleteFavorite", ask |-> ask,
                      userId |-> caller, cafeId |-> cafeId]]
    /\ ReadOnly

\* favorite.deleteMany and the 200; count is the number of rows it deleted.
DeleteFavoriteDeleteMany(p) ==
    /\ req[p].pc = "deleteMany" /\ req[p].kind = "deleteFavorite"
    /\ LET u == req[p].userId
           c == req[p].cafeId
       IN  /\ favorites' = FavoriteDeleteMany(u, c)
           /\ req' = [req EXCEPT ![p] =
                Done("deleteFavorite", req[p].ask,
                     [status |-> 200, isFavorited |-> FALSE,
                      count |-> Cardinality(favorites \ FavoriteDeleteMany(u, c))])]
    /\ UNCHANGED <<cafes, reviews, users, adminEmails, committed,
                   rateLimitStore, now, allowedCalls>>

FavoritedCafeIds == {1, 2}
\* The first handler serves both users, the second one serves "u1".
FavoriteCallers(p) == IF p = 1 THEN Users ELSE {"u1"}

InitFavorites ==
    /\ EmptyRateLimitStore
    /\ cafes = Catalog
    /\ reviews = {}
    /\ favorites = {}
    /\ users = {}
    /\ adminEmails = {"u1"}
    /\ req = [p \in Procs |-> Idle]
    /\ committed = NoCommitted

NextFavorites ==
    \E p \in Procs :
        \/ \E caller \in FavoriteCallers(p), cafeId \in FavoritedCafeIds :
             PostFavoriteStart(p, caller, cafeId)
        \/ \E caller \in FavoriteCallers(p), cafeId \in FavoritedCafeIds :
             DeleteFavoriteStart(p, caller, cafeId)
        \/ \E cafeId \in {1, MissingCafeId, BlankCafeId} :
             /\ p = 1
             /\ \/ PostFavoriteStart(p, IF cafeId = 1 THEN Anonymous ELSE "u1", cafeId)
                \/ DeleteFavoriteStart(p, Anonymous, cafeId)
        \/ PostFavoriteFindCafe(p)
        \/ PostFavoriteUpsert(p)
        \/ PostFavoriteUpsertRead(p)
        \/ PostFavoriteUpsertWrite(p)
        \/ DeleteFavoriteDeleteMany(p)

SpecFavorites == InitFavorites /\ [][NextFavorites]_vars

(***************************************************************************)
(* C4: whatever favorite (POST) and unfavorite (DELETE) requests are made, *)
(* a (user, cafe) pair holds at most one Favorite row.  A POST for a pair  *)
(* that is already favorited answers 200 with isFavorited true and leaves  *)
(* the table as it was, with exactly one row of the pair (already          *)
(* favorited: the row is there when the upsert looks for it and when it    *)
(* writes); every POST answered 200 leaves exactly one row of its pair; a  *)
(* DELETE by a user for a cafe they have not favorited answers 200 with    *)
(* isFavorited false and changes no row, and a DELETE never touches the    *)
(* rows of another pair.                                                   *)
(***************************************************************************)
FavoriteAnswers(p, kind) ==
    /\ req[p].pc \notin {"idle", "done"} /\ req[p].kind = kind
    /\ req'[p].pc = "done" /\ req'[p].body.status = 200

FavoriteStep(p) ==
    /\ ( /\ req[p].pc \in {"upsert", "upsertWrite"} /\ req[p].kind = "postFavorite"
         /\ req'[p].pc = "done"
         /\ req[p].pc = "upsertWrite" => req[p].found
         /\ FavoriteRowsOf(req[p].userId, req[p].cafeId) # {} )
       => /\ req'[p].body.status = 200 /\ req'[p].body.isFavorited
          /\ favorites' = favorites
          /\ Cardinality(FavoriteRowsOf(req[p].userId, req[p].cafeId)) = 1
    /\ FavoriteAnswers(p, "postFavorite")
       => Cardinality({f \in favorites' : /\ f.userId = req[p].userId
                                          /\ f.cafeId = req[p].cafeId}) = 1
    /\ ( /\ req[p].pc = "deleteMany" /\ req[p].kind = "deleteFavorite"
         /\ req'[p] # req[p] )
       => /\ req'[p].body.status = 200 /\ ~req'[p].body.isFavorited
          /\ \A f \in favorites' : ~(f.userId = req[p].userId /\ f.cafeId = req[p].cafeId)
          /\ FavoriteRowsOf(req[p].userId, req[p].cafeId) = {} => favorites' = favorites
          /\ \A f \in favorites :
               (f.userId # req[p].userId \/ f.cafeId # req[p].cafeId) => f \in favorites'

DetailAverageRatings(cafeId) ==
    LET a == AggregateOf(cafeId)
    IN  [reviewCount |-> a.count,
         tasteRating |-> IF a.count = 0 THEN Null ELSE Round2(a.sumTaste, a.count),
         aestheticRating |-> IF a.count = 0 THEN Null ELSE Round2(a.sumAesthetic, a.count),
         studyRating |-> IF a.count = 0 THEN Null ELSE Round2(a.sumStudy, a.count),
         overallRating |-> IF a.count = 0 THEN Null
                           ELSE ToAverageOfThree(a.sumTaste, a.sumAesthetic, a.sumStudy,
                                                 a.count)]

\* GET up to cafe.findUnique: the viewer lookup and the 400 for a blank id.
DetailStart(p, caller, cafeId) ==
    /\ Free(p)
    /\ LET ask == [caller |-> caller, cafeId |-> cafeId]
       IN  req' = [req EXCEPT ![p] =
                IF cafeId = BlankCafeId
                THEN Done("detail", ask, ErrorBody(400, "cafe id is required"))
                ELSE [pc |-> "findCafe", kind |-> "detail", ask |-> ask,
                      viewer |-> PrismaUserOf(caller), cafeId |-> cafeId]]
    /\ ReadOnly

\* cafe.findUnique with its reviews: 404 without the cafe.
DetailFindCafe(p) ==
    /\ req[p].pc = "findCafe" /\ req[p].kind = "detail"
    /\ req' = [req EXCEPT ![p] =
         IF req[p].cafeId \in DOMAIN cafes
         THEN [req[p] EXCEPT !.pc = "aggregate"] @@
              [cafe |-> CafeRow(req[p].cafeId),
               reviewIds |-> {r.id : r \in ReviewsOf(req[p].cafeId)}]
         ELSE Done("detail", req[p].ask, ErrorBody(404, "cafe not found"))]
    /\ ReadOnly

\* review.aggregate, the favorite lookup of the viewer and the 200 response.
DetailAggregate(p) ==
    /\ req[p].pc = "aggregate" /\ req[p].kind = "detail"
    /\ req' = [req EXCEPT ![p] =
         Done("detail", req[p].ask,
              [status |-> 200,
               cafe |-> req[p].cafe,
               reviewIds |-> req[p].reviewIds,
               viewerPrismaUserId |-> IF req[p].viewer = Anonymous THEN Null
                                      ELSE req[p].viewer,
               isFavorited |-> /\ req[p].viewer # Anonymous
                               /\ FavoriteRowsOf(req[p].viewer, req[p].cafeId) # {},
               averageRatings |-> DetailAverageRatings(req[p].cafeId)])]
    /\ ReadOnly

(***************************************************************************)
(* Listing: the list, the search and the detail read over cafes whose      *)
(* reviews differ in number and in rating.                                 *)
(***************************************************************************)
UniformReview(userId, cafeId, rating) ==
    [id |-> 2 * cafeId - (IF userId = "u1" THEN 1 ELSE 0), userId |-> userId,
     cafeId |-> cafeId, tasteRating |-> rating, aestheticRating |-> rating,
     studyRating |-> rating, priceEstimate |-> Null, textComment |-> NullText]

\* The reviews a cafe starts with: none; one of 3; one of 5; two of 3.
ReviewProfiles == 0..3
ProfileReviews(cafeId, profile) ==
    CASE profile = 0 -> {}
      [] profile = 1 -> {UniformReview("u1", cafeId, 3)}
      [] profile = 2 -> {UniformReview("u1", cafeId, 5)}
      [] profile = 3 -> {UniformReview("u1", cafeId, 3), UniformReview("u2", cafeId, 3)}

\* Every profile for the two cafes named Matcha (1 and 3), none or two reviews
\* for cafe 2, no review for a further cafe.
ProfileChoices ==
    {f \in [CafeIds -> ReviewProfiles] :
        \A c \in CafeIds : /\ c = 2 => f[c] \in {0, 3}
                           /\ c > 3 => f[c] = 0}

InitListing ==
    /\ EmptyRateLimitStore
    /\ cafes = Catalog
    /\ \E f \in ProfileChoices :
         reviews = UNION {ProfileReviews(c, f[c]) : c \in CafeIds}
    /\ favorites = {}
    /\ users = Users
    /\ adminEmails = {"u1"}
    /\ req = [p \in Procs |-> Idle]
    /\ committed = NoCommitted

NextListing ==
    \/ \E page \in 1..MaxPageParam, pageSize \in 1..MaxPageSizeParam :
         \E sortParam \in {SortAbsent, "popularity"} :
            ListStart(1, Anonymous, <<>>, IntParam(page), IntParam(pageSize), sortParam)
    \/ \E sortParam \in {"rating", "Popularity", "name_asc"} :
         ListStart(1, Anonymous, <<"All">>, NoParam, NoParam, sortParam)
    \/ \E pageParam \in {IntParam(1), FracParam(2), IntParam(0), JunkParam} :
         \E pageSizeParam \in {IntParam(2), IntParam(PageSizeCap + 1)} :
            ListStart(1, Anonymous, <<"NYC">>, pageParam, pageSizeParam, SortAbsent)
    \/ \E q \in {<<"a">>, <<"p", "h", "e">>, <<"z">>, <<>>}, page \in 1..2 :
         SearchStart(1, Anonymous, q, <<>>, IntParam(page), IntParam(1), "popularity")
    \/ \E cityValues \in {<<"Bay">>, <<"Bay Area">>, <<"">>, <<"LA", "Bay">>} :
         \/ ListStart(1, Anonymous, cityValues, NoParam, NoParam, SortAbsent)
         \/ SearchStart(1, Anonymous, <<"h">>, cityValues, NoParam, NoParam, SortAbsent)
    \/ \E cafeId \in CafeIds \cup {MissingCafeId, BlankCafeId} :
         DetailStart(1, Anonymous, cafeId)
    \/ \E pageParam \in {NoParam, IntParam(2), FracParam(2), IntParam(0), JunkParam} :
         AdminListStart(1, "u1", <<>>, TRUE, pageParam, IntParam(2))
    \/ \E pageSizeParam \in {NoParam, FracParam(1), IntParam(-1), JunkParam,
                              IntParam(AdminPageSizeCap + 1)} :
         AdminListStart(1, "u1", <<"m", "A">>, FALSE, NoParam, pageSizeParam)
    \/ \E pageSizeParam \in {FracParam(1), IntParam(0), JunkParam} :
         \/ ListStart(1, Anonymous, <<>>, NoParam, pageSizeParam, SortAbsent)
         \/ SearchStart(1, Anonymous, <<"a">>, <<>>, IntParam(0), pageSizeParam, SortAbsent)
         \/ SearchStart(1, Anonymous, <<"a">>, <<>>, FracParam(1), pageSizeParam, SortAbsent)
    \/ AdminListCount(1)
    \/ AdminListFindMany(1)
    \/ ListFindMany(1)
    \/ SearchFindMany(1)
    \/ ReadGroupBy(1)
    \/ ReadRespond(1)
    \/ DetailFindCafe(1)
    \/ DetailAggregate(1)

SpecListing == InitListing /\ [][NextListing]_vars

(***************************************************************************)
(* What a list or search request with the parameters of `ask` computes     *)
(* from the store, for each order the database may return the rows in.     *)
(***************************************************************************)
CandidateIds(kind, ask) ==
    IF kind = "list"
    THEN CafeFindManyVisible(parseCityFilters(ask.city))
    ELSE {id \in CafeFindManyVisible(parseCityFiltersExpanded(ask.city)) :
            Includes(normalizeForSearch(cafes[id].name), normalizeForSearch(ask.q))}

AskedPageSize(ask) == parsePositiveInt(ask.pageSize, DefaultPageSize)
AskedPage(ask) == parsePositiveInt(ask.page, 1)

\* The complete sorted candidate lists, one per order of the rows.
SortedLists(kind, ask) ==
    LET ids == CandidateIds(kind, ask)
        ratingGroups == IF ids = {} THEN {} ELSE ReviewGroupBy(ids)
    IN  {SortCafes([i \in 1..Len(o) |-> WithComputedScore(CafeRow(o[i]), ratingGroups)],
                   parseSort(ask.sort)) : o \in Orders(ids)}

\* The windows a request for `page` may return.
WindowsOf(kind, ask, page) ==
    {PageWindow(list, page, AskedPageSize(ask)) : list \in SortedLists(kind, ask)}

TotalPagesOf(kind, ask) ==
    Max(1, CeilDiv(Cardinality(CandidateIds(kind, ask)), AskedPageSize(ask)))

IdsOf(list) == {list[i].id : i \in 1..Len(list)}
ReturnedCafes(body) == [i \in 1..Len(body.cafes) |-> body.cafes[i].cafe]

RECURSIVE SumOfSizes(_, _, _)
SumOfSizes(list, pageSize, pages) ==
    IF pages = 0 THEN 0
    ELSE Len(PageWindow(list, pages, pageSize).cafes) + SumOfSizes(list, pageSize, pages - 1)

(***************************************************************************)
(* C5: for the candidate set of a request (T cafes) and its pageSize S,    *)
(* the windows returned for pages 1..totalPages are pairwise disjoint,     *)
(* each holds at most S cafes, and their sizes sum to T, so together they  *)
(* hold every candidate exactly once.  Each page is a request of its own:  *)
(* the window a request has returned for its page is compared with every   *)
(* window a request for another page may return.                           *)
(***************************************************************************)
C5_WindowsPartitionCandidates ==
    (IsReadDone(1) /\ AskedPage(req[1].ask) <= TotalPagesOf(req[1].kind, req[1].ask))
    => LET kind == req[1].kind
           ask == req[1].ask
           returned == IdsOf(ReturnedCafes(req[1].body))
       IN  /\ Len(req[1].body.cafes) <= AskedPageSize(ask)
           /\ Cardinality(returned) = Len(req[1].body.cafes)
           /\ returned \subseteq CandidateIds(kind, ask)
           /\ \A list \in SortedLists(kind, ask) :
                SumOfSizes(list, AskedPageSize(ask), TotalPagesOf(kind, ask))
                  = Cardinality(CandidateIds(kind, ask))
           /\ \A other \in 1..TotalPagesOf(kind, ask) :
                other # AskedPage(ask) =>
                  \A window \in WindowsOf(kind, ask, other) :
                     IdsOf(window.cafes) \cap returned = {}

(***************************************************************************)
(* C6: a request for a page beyond totalPages = max(1, ceil(T/S)) is       *)
(* answered 200 with the cafes and the pagination of a request for page =  *)
(* totalPages: page = totalPages, hasNextPage false, hasPreviousPage =     *)
(* totalPages > 1; with T = 0 the list is empty, page and totalPages are 1 *)
(* and both flags are false.                                               *)
(***************************************************************************)
IsReadAnswered(p) ==
    /\ req[p].pc = "done" /\ req[p].kind \in {"list", "search"}
    /\ AskedPage(req[p].ask) # Null /\ AskedPageSize(req[p].ask) # Null
    /\ AskedPageSize(req[p].ask) <= PageSizeCap
    /\ req[p].kind = "search" => req[p].ask.q # <<>>

C6_PageBeyondLastIsLastPage ==
    (IsReadAnswered(1) /\ AskedPage(req[1].ask) > TotalPagesOf(req[1].kind, req[1].ask))
    => LET kind == req[1].kind
           ask == req[1].ask
           body == req[1].body
           total == Cardinality(CandidateIds(kind, ask))
           totalPages == TotalPagesOf(kind, ask)
       IN  /\ body.status = 200
           /\ body.pagination =
                [page |-> totalPages, pageSize |-> AskedPageSize(ask), total |-> total,
                 totalPages |-> totalPages, hasNextPage |-> FALSE,
                 hasPreviousPage |-> totalPages > 1]
           /\ total = 0 =>
                /\ body.cafes = <<>>
                /\ body.pagination.page = 1 /\ body.pagination.totalPages = 1
                /\ ~body.pagination.hasNextPage /\ ~body.pagination.hasPreviousPage
           /\ \A window \in WindowsOf(kind, ask, totalPages) :
                /\ window.cafes = ReturnedCafes(body)
                /\ window.pagination = body.pagination

(***************************************************************************)
(* The key chains of the two sort modes, stated on the reported fields.    *)
(***************************************************************************)
\* a's weightedRating goes before b's: higher first, null (no reviews) last.
WeightedBefore(a, b) ==
    /\ a.weightedRating # Null
    /\ b.weightedRating = Null \/ a.weightedRating > b.weightedRating

NameAtOrBefore(a, b) == LocaleRank(a.name) <= LocaleRank(b.name)

\* a may stand before b in the order of the mode.
RanksAtOrBefore(a, b, sort) ==
    IF sort = "popularity"
    THEN \/ a.reviewCount > b.reviewCount
         \/ /\ a.reviewCount = b.reviewCount
            /\ \/ WeightedBefore(a, b)
               \/ a.weightedRating = b.weightedRating /\ NameAtOrBefore(a, b)
    ELSE \/ WeightedBefore(a, b)
         \/ /\ a.weightedRating = b.weightedRating
            /\ \/ a.reviewCount > b.reviewCount
               \/ a.reviewCount = b.reviewCount /\ NameAtOrBefore(a, b)

IsOrdered(list, sort) ==
    \A i, j \in 1..Len(list) : i < j => RanksAtOrBefore(list[i], list[j], sort)

\* The mode a sort parameter selects: popularity in any case of the word,
\* rating for the word rating, for a missing value and for any other value.
SelectedSort(sortParam) ==
    IF sortParam \in {"popularity", "Popularity"} THEN "popularity" ELSE "rating"

C8_PageRanksBeforeNextPage ==
    (IsReadDone(1) /\ AskedPage(req[1].ask) < TotalPagesOf(req[1].kind, req[1].ask))
    => \A window \in WindowsOf(req[1].kind, req[1].ask, AskedPage(req[1].ask) + 1) :
          \A i \in 1..Len(req[1].body.cafes), j \in 1..Len(window.cafes) :
             RanksAtOrBefore(req[1].body.cafes[i].cafe, window.cafes[j], req[1].body.sort)

\* Page 1 of several was returned, and it holds a cafe the database has created
\* after a cafe that is left for a later page.
C8_Witness ==
    /\ IsReadDone(1) /\ req[1].kind = "list"
    /\ req[1].body.pagination.page = 1 /\ req[1].body.pagination.totalPages >= 2
    /\ Len(req[1].body.cafes) >= 1
    /\ \E id \in CandidateIds("list", req[1].ask) :
         /\ id \notin IdsOf(ReturnedCafes(req[1].body))
         /\ id < req[1].body.cafes[1].cafe.id
         /\ ~RanksAtOrBefore(WithComputedScore(CafeRow(id), ReviewGroupBy({id})),
                             req[1].body.cafes[1].cafe, req[1].body.sort)

(***************************************************************************)
(* C9: for one candidate set and one sort mode, list and search return the *)
(* cafes in the same order on every request, whatever order the database   *)
(* returned the candidate rows in.                                         *)
(***************************************************************************)
C9_SortDeterministic ==
    IsReadDone(1)
    => \A window \in WindowsOf(req[1].kind, req[1].ask, AskedPage(req[1].ask)) :
          window.cafes = ReturnedCafes(req[1].body)

(***************************************************************************)
(* C10: a cafe with reviewCount 0 is reported with reviewCount 0 and with  *)
(* every rating null: averageRating and weightedRating in list and search, *)
(* the three dimension averages and overallRating in the cafe detail;      *)
(* this holds when the aggregate result has no group for the cafe and when *)
(* it has a group whose count is 0 and whose averages are null.  A         *)
(* reported reviewCount is the number of reviews of the cafe.              *)
(***************************************************************************)
NoRating(cafe) == cafe.averageRating = Null /\ cafe.weightedRating = Null

C10_NoReviewsAllNull ==
    /\ IsReadDone(1)
       => \A i \in 1..Len(req[1].body.cafes) :
             LET cafe == req[1].body.cafes[i].cafe
             IN  /\ cafe.reviewCount = Cardinality(ReviewsOf(cafe.id))
                 /\ cafe.reviewCount = 0 => NoRating(cafe)
    /\ (req[1].pc = "done" /\ req[1].kind = "detail" /\ req[1].body.status = 200)
       => LET ratings == req[1].body.averageRatings
          IN  /\ ratings.reviewCount = Cardinality(ReviewsOf(req[1].body.cafe.id))
              /\ ratings.reviewCount = 0 =>
                   /\ ratings.tasteRating = Null /\ ratings.aestheticRating = Null
                   /\ ratings.studyRating = Null /\ ratings.overallRating = Null
    /\ \A id \in DOMAIN cafes :
         ReviewsOf(id) = {} =>
            /\ WithComputedScore(CafeRow(id), {}).reviewCount = 0
            /\ NoRating(WithComputedScore(CafeRow(id), {}))
            /\ WithComputedScore(CafeRow(id), {AggregateOf(id)}).reviewCount = 0
            /\ NoRating(WithComputedScore(CafeRow(id), {AggregateOf(id)}))

\* A list response holds a cafe without reviews next to a reviewed one.
C10_Witness ==
    /\ IsReadDone(1) /\ req[1].kind = "list"
    /\ \E i, j \in 1..Len(req[1].body.cafes) :
         /\ req[1].body.cafes[i].cafe.reviewCount = 0
         /\ req[1].body.cafes[i].cafe.weightedRating = Null
         /\ req[1].body.cafes[j].cafe.reviewCount > 0
         /\ req[1].body.cafes[j].cafe.weightedRating # Null

(***************************************************************************)
(* Ratings: the list, the search and the detail read over one cafe whose   *)
(* reviews carry chosen ratings.                                           *)
(***************************************************************************)
MaxReviewsPerCafe == 4

\* The users who wrote the reviews of the cafe, in the order of the reviews.
Raters == <<"u1", "u2", "u3", "u4", "u5", "u6">>

RatedReview(i, cafeId, ratings) ==
    [id |-> i, userId |-> Raters[i], cafeId |-> cafeId,
     tasteRating |-> ratings[1], aestheticRating |-> ratings[2],
     studyRating |-> ratings[3], priceEstimate |-> Null, textComment |-> NullText]

\* The ratings <<taste, aesthetic, study>> of the reviews of the cafe: no review,
\* one to MaxReviewsPerCafe reviews that rate everything v, and three lists of
\* mixed ratings.
RatingLists ==
    {<<>>}
    \cup {[i \in 1..n |-> <<v, v, v>>] : n \in 1..MaxReviewsPerCafe, v \in 1..5}
    \cup {<< <<5, 5, 5>>, <<3, 3, 3>> >>,
          << <<3, 3, 4>> >>,
          << <<1, 1, 2>>, <<1, 1, 2>>, <<2, 2, 2>> >>}

RatedCafeId == 1

InitRatings ==
    /\ EmptyRateLimitStore
    /\ cafes = Catalog
    /\ \E ratings \in RatingLists :
         reviews = {RatedReview(i, RatedCafeId, ratings[i]) : i \in 1..Len(ratings)}
    /\ favorites = {}
    /\ users = Users
    /\ adminEmails = {"u1"}
    /\ req = [p \in Procs |-> Idle]
    /\ committed = NoCommitted

NextRatings ==
    \/ \E sortParam \in {SortAbsent, "popularity"} :
         ListStart(1, Anonymous, <<"LA">>, NoParam, NoParam, sortParam)
    \/ SearchStart(1, Anonymous, <<"M", "A", "T">>, <<>>, NoParam, NoParam, SortAbsent)
    \/ DetailStart(1, Anonymous, RatedCafeId)
    \/ ListFindMany(1)
    \/ SearchFindMany(1)
    \/ ReadGroupBy(1)
    \/ ReadRespond(1)
    \/ DetailFindCafe(1)
    \/ DetailAggregate(1)

SpecRatings == InitRatings /\ [][NextRatings]_vars

\* The cafes of the 200 body of a list or search request, with their ratings.
RatedCafes(p) == {req[p].body.cafes[i].cafe : i \in 1..Len(req[p].body.cafes)}

\* The reviews of the cafe are exactly one that rates everything 5 and one that
\* rates everything 3.
HasFiveAndThree(cafeId) ==
    /\ Cardinality(ReviewsOf(cafeId)) = 2
    /\ \A v \in {3, 5} : \E r \in ReviewsOf(cafeId) :
         r.tasteRating = v /\ r.aestheticRating = v /\ r.studyRating = v

\* weighted (hundredths) is a two-decimal value nearest to
\* (averageRating * reviewCount + 3 * 5) / (reviewCount + 5).
IsNearestWeighted(weighted, averageRating, reviewCount) ==
    LET num == averageRating * reviewCount + 100 * priorRating * weightedMinReviews
        den == reviewCount + weightedMinReviews
        diff == weighted * den - num
    IN  2 * (IF diff < 0 THEN -diff ELSE diff) <= den

\* What list and search report for rated cafes, the weightedRating of the cafe
\* reviewed [5,5,5] and [3,3,3] being example (hundredths).
WeightedReported(example) ==
    IsReadDone(1) =>
      \A cafe \in RatedCafes(1) :
        LET a == AggregateOf(cafe.id)
        IN  a.count >= 1 =>
              /\ cafe.reviewCount = a.count
              /\ cafe.averageRating =
                   ToAverageOfThree(a.sumTaste, a.sumAesthetic, a.sumStudy, a.count)
              /\ IsNearestWeighted(cafe.weightedRating, cafe.averageRating, cafe.reviewCount)
              /\ HasFiveAndThree(cafe.id) =>
                   /\ cafe.reviewCount = 2
                   /\ cafe.averageRating = 400
                   /\ cafe.weightedRating = example

(***************************************************************************)
(* C11, as amended: for a cafe with n >= 1 reviews, list and search report *)
(* reviewCount n, the overall average a rounded to two decimals, and as    *)
(* weightedRating a two-decimal value nearest to (a*n + 3*5)/(n + 5), a    *)
(* being the reported average; the cafe reviewed exactly [5,5,5] and       *)
(* [3,3,3] is reported with reviewCount 2, average 4.00 and weightedRating *)
(* 3.29.                                                                   *)
(***************************************************************************)
C11_WeightedRatingFormula == WeightedReported(329)

\* A list or search response reports the cafe reviewed [5,5,5] and [3,3,3].
C11_Witness ==
    /\ IsReadDone(1)
    /\ \E cafe \in RatedCafes(1) :
         /\ HasFiveAndThree(cafe.id)
         /\ cafe.weightedRating = 329

\* C11 as stated: the same cafe is reported with weightedRating 3.14.
C11_AsStated == WeightedReported(314)

\* The cafe has reviews and each of them rates taste, aesthetic and study v.
AllRate(cafeId, v) ==
    /\ ReviewsOf(cafeId) # {}
    /\ \A r \in ReviewsOf(cafeId) :
         r.tasteRating = v /\ r.aestheticRating = v /\ r.studyRating = v

IsDetailDone(p) ==
    req[p].pc = "done" /\ req[p].kind = "detail" /\ req[p].body.status = 200

StrictlyBetween(x, a, b) == Min(a, b) < x /\ x < Max(a, b)

\* What is said of the weightedRating w (hundredths) of a cafe whose one to four
\* reviews all rate v: strictly between 3 and v, or, unless strict, 3 when v is 3.
Shrunk(w, v, strict) ==
    IF v = priorRating /\ ~strict THEN w = 100 * priorRating
    ELSE StrictlyBetween(w, 100 * priorRating, 100 * v)

\* The averages reported for cafes whose reviews all rate v.
UniformReported(strict) ==
    \A v \in 1..5 :
      /\ IsReadDone(1) =>
           \A cafe \in RatedCafes(1) :
             AllRate(cafe.id, v) =>
               /\ cafe.averageRating = 100 * v
               /\ cafe.reviewCount \in 1..(weightedMinReviews - 1) =>
                    Shrunk(cafe.weightedRating, v, strict)
      /\ (IsDetailDone(1) /\ AllRate(req[1].body.cafe.id, v)) =>
           LET ratings == req[1].body.averageRatings
           IN  /\ ratings.tasteRating = 100 * v
               /\ ratings.aestheticRating = 100 * v
               /\ ratings.studyRating = 100 * v
               /\ ratings.overallRating = 100 * v

(***************************************************************************)
(* C12, as amended: for every v in 1..5 and every cafe whose reviews all   *)
(* rate taste, aesthetic and study v, the three dimension averages and the *)
(* overall average equal v, and with 1 to 4 reviews the weightedRating is  *)
(* strictly between 3 and v when v differs from 3 and exactly 3 when v is  *)
(* 3.                                                                      *)
(***************************************************************************)
C12_UniformRatings == UniformReported(FALSE)

\* A list or search response reports a cafe whose reviews, fewer than five,
\* all rate 3, with weightedRating 3.00.
C12_Witness ==
    /\ IsReadDone(1)
    /\ \E cafe \in RatedCafes(1) :
         /\ AllRate(cafe.id, priorRating)
         /\ cafe.reviewCount \in 1..(weightedMinReviews - 1)
         /\ cafe.weightedRating = 100 * priorRating

\* C12 as stated: the weightedRating is strictly between 3 and v for every v.
C12_AsStated == UniformReported(TRUE)

\* round2 of the mean of three values that are already rounded (hundredths).
MeanOfRounded(taste, aesthetic, study) == (2 * (taste + aesthetic + study) + 3) \div 6

\* The overall rating the statement of C13 gives a cafe with reviews.
OverallFromRoundedMeans(cafeId) ==
    LET a == AggregateOf(cafeId)
    IN  MeanOfRounded(Round2(a.sumTaste, a.count), Round2(a.sumAesthetic, a.count),
                      Round2(a.sumStudy, a.count))

(***************************************************************************)
(* C13: the overall rating reported for a cafe with reviews (overallRating *)
(* of the detail, averageRating of list and search) is                     *)
(* round2((round2(taste mean) + round2(aesthetic mean) + round2(study      *)
(* mean)) / 3).                                                            *)
(***************************************************************************)
C13_OverallFromRoundedMeans ==
    /\ IsReadDone(1) =>
         \A cafe \in RatedCafes(1) :
           cafe.reviewCount > 0 => cafe.averageRating = OverallFromRoundedMeans(cafe.id)
    /\ IsDetailDone(1) =>
         LET ratings == req[1].body.averageRatings
         IN  ratings.reviewCount > 0 =>
               /\ ratings.overallRating = OverallFromRoundedMeans(req[1].body.cafe.id)
               /\ ratings.overallRating =
                    MeanOfRounded(ratings.tasteRating, ratings.aestheticRating,
                                  ratings.studyRating)

(***************************************************************************)
(* The search filter, stated apart from the handler.                       *)
(***************************************************************************)
StripDiacritic(c) == IF c \in {"e^", "e'"} THEN "e" ELSE c

LowerCase(c) ==
    CASE c = "A" -> "a" [] c = "C" -> "c" [] c = "E" -> "e" [] c = "H" -> "h"
      [] c = "M" -> "m" [] c = "P" -> "p" [] c = "T" -> "t" [] OTHER -> c

\* Unicode-decomposed, diacritics stripped, lower-cased.
Folded(text) == [i \in 1..Len(text) |-> LowerCase(StripDiacritic(text[i]))]

ContainsRun(text, run) ==
    \E first \in 1..(Len(text) + 1) :
        /\ first + Len(run) - 1 <= Len(text)
        /\ SubSeq(text, first, first + Len(run) - 1) = run

BayAliases == {"Bay", "Bay Area"}

\* The city passes the filter given as the values of the city parameter: no
\* filter when every value is empty or "All"; "Bay" and "Bay Area" stand for
\* each other.
PassesCityFilter(city, cityValues) ==
    LET given == {cityValues[i] : i \in 1..Len(cityValues)} \ {"", "All", "all", "ALL"}
    IN  \/ given = {}
        \/ city \in given
        \/ city \in BayAliases /\ given \cap BayAliases # {}

\* The cafes a search for q under the city values is to find in the store.
SearchMatches(q, cityValues) ==
    {id \in DOMAIN cafes :
        /\ ~cafes[id].isHidden
        /\ PassesCityFilter(cafes[id].city, cityValues)
        /\ ContainsRun(Folded(cafes[id].name), Folded(q))}

\* The number of cafes on the page answered, of total candidates.
ExpectedOnPage(total, page, pageSize) ==
    LET totalPages == Max(1, CeilDiv(total, pageSize))
        current == Min(page, totalPages)
    IN  Max(0, Min(pageSize, total - (current - 1) * pageSize))

(***************************************************************************)
(* C14: the rows a search keeps are, each once, exactly the cafes of the   *)
(* store that are not hidden, pass the city filter and whose folded name   *)
(* contains the folded query; pagination.total is their number, the page   *)
(* answered is cut from them with the size its place among the pages       *)
(* gives it, and no cafe whose folded name lacks the query is returned.    *)
(***************************************************************************)
C14_SearchReturnsMatches ==
    [][\A p \in Procs :
        /\ (req[p].pc = "findMany" /\ req[p].kind = "search" /\ req'[p].pc = "groupBy") =>
              /\ {req'[p].rows[i].id : i \in 1..Len(req'[p].rows)}
                    = SearchMatches(req[p].ask.q, req[p].ask.city)
              /\ Len(req'[p].rows) = Cardinality(SearchMatches(req[p].ask.q, req[p].ask.city))
        /\ (req[p].pc = "respond" /\ req[p].kind = "search" /\ req'[p].pc = "done") =>
              LET body == req'[p].body
              IN  /\ body.status = 200
                  /\ body.pagination.total = Len(req[p].rows)
                  /\ Len(body.cafes) = ExpectedOnPage(Len(req[p].rows), req[p].page,
                                                      req[p].pageSize)
                  /\ \A i \in 1..Len(body.cafes) :
                        /\ \E j \in 1..Len(req[p].rows) :
                              req[p].rows[j].id = body.cafes[i].cafe.id
                        /\ ContainsRun(Folded(body.cafes[i].cafe.name), Folded(req[p].ask.q))
                  /\ \A i, j \in 1..Len(body.cafes) :
                        body.cafes[i].cafe.id = body.cafes[j].cafe.id => i = j
      ]_vars

\* A search for an accented, upper-case query answered with the cafe whose name
\* matches only after folding, while another cafe of the city filter is hidden.
C14_Witness ==
    /\ IsReadDone(1) /\ req[1].kind = "search"
    /\ req[1].ask.q = <<"P", "H", "e'">>
    /\ req[1].body.pagination.total = 1
    /\ Len(req[1].body.cafes) = 1
    /\ req[1].body.cafes[1].cafe.name = NamePhe
    /\ cafes[3].isHidden

\* The cafes a list or search request is to draw its pages from: not hidden,
\* passing the city filter and, for the search, matching the query.
FilteredCafes(kind, ask) ==
    {id \in DOMAIN cafes :
        /\ ~cafes[id].isHidden
        /\ PassesCityFilter(cafes[id].city, ask.city)
        /\ kind = "search" => ContainsRun(Folded(cafes[id].name), Folded(ask.q))}

(***************************************************************************)
(* C15: in the list and in the search a filter on "Bay" or on "Bay Area"   *)
(* draws on the cafes labelled "Bay" and the cafes labelled "Bay Area"     *)
(* alike, and the value "All" or an empty value applies no city filter:    *)
(* pagination.total counts the cafes passing the filter so read, and every *)
(* cafe returned is one of them.                                           *)
(***************************************************************************)
C15_BayAliasesExpand ==
    IsReadDone(1) =>
      /\ req[1].body.pagination.total = Cardinality(FilteredCafes(req[1].kind, req[1].ask))
      /\ \A cafe \in RatedCafes(1) : cafe.id \in FilteredCafes(req[1].kind, req[1].ask)

\* The parameter is given and is not a positive integer.
NotPositiveInteger(param) ==
    \/ param.kind \in {"junk", "frac"}
    \/ param.kind = "int" /\ param.n <= 0

\* The largest pageSize of the endpoint and the message of its 400.
MaxPageSizeOf(kind) == IF kind = "adminList" THEN AdminPageSizeCap ELSE PageSizeCap
PageSizeMessage(kind) ==
    IF kind = "adminList" THEN "pageSize must be a positive integer up to 100"
    ELSE "pageSize must be a positive integer up to 50"

\* A list, search or admin-list request that has come to its paging parameters:
\* the search has a query and the admin list an admin as its caller.
ReachesPaging(p) ==
    /\ req[p].pc # "idle"
    /\ req[p].kind \in {"list", "search", "adminList"}
    /\ req[p].kind = "search" => req[p].ask.q # <<>>
    /\ req[p].kind = "adminList" => AdminGuard(req[p].ask.caller).status = 0

RejectedWith(p, error) == req[p].pc = "done" /\ req[p].body = ErrorBody(400, error)

(***************************************************************************)
(* C16: in list, search and admin-list a page that is <= 0 or not an       *)
(* integer is answered 400 "page must be a positive integer", and (with a  *)
(* valid page) a pageSize that is <= 0, not an integer or above the        *)
(* endpoint's maximum is answered 400 "pageSize must be a positive integer *)
(* up to N"; such a request is answered before any query, so it is never   *)
(* found at a query step.                                                  *)
(***************************************************************************)
C16_InvalidPagingRejected ==
    \A p \in Procs :
      ReachesPaging(p) =>
        LET ask == req[p].ask
            kind == req[p].kind
        IN  /\ NotPositiveInteger(ask.page) =>
                 RejectedWith(p, "page must be a positive integer")
            /\ (/\ ~NotPositiveInteger(ask.page)
                /\ \/ NotPositiveInteger(ask.pageSize)
                   \/ ask.pageSize.kind = "int" /\ ask.pageSize.n > MaxPageSizeOf(kind)) =>
                 RejectedWith(p, PageSizeMessage(kind))

(***************************************************************************)
(* Moderation: the admin endpoints called by admins and by others, next to *)
(* the public detail and leaderboard reads.                                *)
(***************************************************************************)
MissingReviewId == 0

InitModeration ==
    /\ EmptyRateLimitStore
    /\ cafes = Catalog
    /\ reviews = {UniformReview("u1", 1, 5), UniformReview("u2", 2, 3)}
    /\ favorites = {[id |-> 1, userId |-> "u2", cafeId |-> 1]}
    /\ users = Users
    /\ adminEmails \in {{}, {"u1"}}
    /\ req = [p \in Procs |-> Idle]
    /\ committed = NoCommitted

NextModeration ==
    \/ DetailStart(1, Anonymous, 1)
    \/ DetailFindCafe(1)
    \/ DetailAggregate(1)
    \/ LeaderboardFindMany(1)
    \/ LeaderboardGroupBy(1)
    \/ \E cafeId \in {1, MissingCafeId}, isHidden \in BOOLEAN :
         AdminPatchCafe(2, "u1", cafeId, isHidden)
    \/ \E ids \in {{1, 2}, {NumCafes, MissingCafeId}, {}},
          action \in {"delete", "restore", "purge"} :
         AdminBulk(2, "u1", ids, action)
    \/ \E showHidden \in BOOLEAN :
         AdminListStart(2, "u1", <<>>, showHidden, NoParam, NoParam)
    \/ \E allowed \in BOOLEAN, reviewId \in {1, MissingReviewId, BlankReviewId} :
         AdminDeleteReview(2, "u1", allowed, reviewId)
    \/ \E requester \in {Anonymous, "u2"} :
         \/ AdminPatchCafe(2, requester, 1, TRUE)
         \/ AdminBulk(2, requester, {1, 2}, "delete")
         \/ AdminListStart(2, requester, <<>>, TRUE, NoParam, NoParam)
         \/ \E allowed \in BOOLEAN : AdminDeleteReview(2, requester, allowed, 1)
    \/ AdminListCount(2)
    \/ AdminListFindMany(2)

SpecModeration == InitModeration /\ [][NextModeration]_vars

(***************************************************************************)
(* C17: GET /api/cafes/:id answers 404 for a hidden cafe when the caller   *)
(* is not an admin: no 200 answered to such a caller carries a cafe whose  *)
(* isHidden flag was true when the handler read it.                        *)
(***************************************************************************)
C17_HiddenDetailIs404 ==
    \A p \in Procs :
      (IsDetailDone(p) /\ req[p].ask.caller \notin adminEmails) =>
        ~req[p].body.cafe.isHidden

(***************************************************************************)
(* C18: the ranked list of the leaderboard holds no cafe whose isHidden    *)
(* flag was true when the page read the cafes.                             *)
(***************************************************************************)
C18_LeaderboardSkipsHidden ==
    \A p \in Procs :
      (req[p].pc = "done" /\ req[p].kind = "leaderboard") =>
        \A i \in 1..Len(req[p].body.rankedCafes) : ~req[p].body.rankedCafes[i].isHidden

AdminKinds == {"adminList", "adminPatch", "adminBulk", "adminDeleteReview"}

\* Process p takes a step of a request of the kinds given, leaving it answered.
Answers(p, kinds) == req'[p] # req[p] /\ req'[p].pc = "done" /\ req'[p].kind \in kinds

\* What the allowlist check answers a caller who is not on the list.
RefusalOf(caller) ==
    IF adminEmails = {} THEN ErrorBody(500, "admin email list is not configured")
    ELSE IF caller = Anonymous THEN ErrorBody(401, "unauthorized")
    ELSE ErrorBody(403, "forbidden")

TooManyRequests == ErrorBody(429, "too many requests, please try again shortly")

\* Every request of a caller outside the allowlist is answered in its first
\* step, changes no cafe and no review, and is answered with the refusal of the
\* allowlist check or, if rateLimited, with the 429 of the review deletion.
OutsidersRefused(rateLimited) ==
    \A p \in Procs :
      (req'[p] # req[p] /\ req'[p].kind \in AdminKinds
          /\ req'[p].ask.caller \notin adminEmails) =>
        /\ req'[p].pc = "done"
        /\ cafes' = cafes /\ reviews' = reviews
        /\ \/ req'[p].body = RefusalOf(req'[p].ask.caller)
           \/ /\ rateLimited
              /\ req'[p].kind = "adminDeleteReview"
              /\ req'[p].body = TooManyRequests

(***************************************************************************)
(* C19, as amended: on every admin endpoint (list cafes, PATCH cafe        *)
(* visibility, bulk delete/restore, delete review) a request whose         *)
(* authenticated email is not in the allowlist never changes any cafe or   *)
(* review; it is answered 500 "admin email list is not configured" when    *)
(* the allowlist is empty, else 401 "unauthorized" without an              *)
(* authenticated email, else 403 "forbidden", except that the review       *)
(* deletion answers 429 "too many requests, please try again shortly"      *)
(* before these checks when the client is over its rate limit.             *)
(***************************************************************************)
C19_OutsidersChangeNothing == [][OutsidersRefused(TRUE)]_vars

\* A signed-in caller outside the allowlist was refused the deletion of a review
\* that is still stored, and no cafe is hidden.
C19_Witness ==
    /\ req[2].pc = "done" /\ req[2].kind = "adminDeleteReview"
    /\ req[2].ask.caller = "u2" /\ adminEmails = {"u1"}
    /\ req[2].body = ErrorBody(403, "forbidden")
    /\ \E r \in reviews : r.id = req[2].ask.reviewId
    /\ \A id \in DOMAIN cafes : ~cafes[id].isHidden

\* C19 as stated: the answer is always the 500, the 401 or the 403.
C19_AsStated == [][OutsidersRefused(FALSE)]_vars

(***************************************************************************)
(* C20: a bulk request of an admin with ids and an action of delete or     *)
(* restore is answered 200; it sets isHidden to true (delete) or false     *)
(* (restore) on exactly the existing cafes whose ids are listed, removes   *)
(* and adds no cafe row, changes nothing else of any cafe, leaves reviews  *)
(* and favorites as they were, and reports updatedCount as the number of   *)
(* listed ids that exist.                                                  *)
(***************************************************************************)
C20_BulkSetsVisibilityOnly ==
    [][\A p \in Procs :
        (/\ Answers(p, {"adminBulk"})
         /\ req'[p].ask.caller \in adminEmails
         /\ req'[p].ask.ids # {}
         /\ req'[p].ask.action \in {"delete", "restore"}) =>
           LET ask == req'[p].ask
               flag == (ask.action = "delete")
           IN  /\ req'[p].body.status = 200
               /\ req'[p].body.isHidden = flag
               /\ req'[p].body.updatedCount = Cardinality(ask.ids \cap DOMAIN cafes)
               /\ DOMAIN cafes' = DOMAIN cafes
               /\ \A id \in DOMAIN cafes :
                     /\ cafes'[id].name = cafes[id].name
                     /\ cafes'[id].city = cafes[id].city
                     /\ cafes'[id].isHidden = IF id \in ask.ids THEN flag
                                              ELSE cafes[id].isHidden
               /\ reviews' = reviews
               /\ favorites' = favorites
      ]_vars

\* An admin's bulk delete naming a cafe that exists and an id that does not was
\* answered with updatedCount 1; the cafe is hidden, a reviewed cafe that was
\* not named is not, and the reviews and the favorite are still stored.
C20_Witness ==
    /\ req[2].pc = "done" /\ req[2].kind = "adminBulk"
    /\ req[2].ask.ids = {NumCafes, MissingCafeId} /\ req[2].ask.action = "delete"
    /\ req[2].body.status = 200 /\ req[2].body.updatedCount = 1
    /\ cafes[NumCafes].isHidden /\ ~cafes[1].isHidden
    /\ Cardinality(reviews) = 2 /\ Cardinality(favorites) = 1

(***************************************************************************)
(* Viewers: the list and the search read by anonymous and signed-in        *)
(* callers while favorites are added and removed.                          *)
(***************************************************************************)
FavoriteOf(id, userId, cafeId) == [id |-> id, userId |-> userId, cafeId |-> cafeId]

InitViewers ==
    /\ EmptyRateLimitStore
    /\ cafes = Catalog
    /\ reviews = {}
    /\ \E rows \in SUBSET {FavoriteOf(1, "u1", 1), FavoriteOf(2, "u2", 1),
                           FavoriteOf(3, "u2", 2)} :
         /\ favorites = rows
         /\ users \in {{"u1"} \cup {f.userId : f \in rows}, Users}
    /\ adminEmails = {"u1"}
    /\ req = [p \in Procs |-> Idle]
    /\ committed = NoCommitted

NextViewers ==
    \/ \E caller \in {Anonymous, "u1", "u2"}, page \in 1..2 :
         \/ ListStart(1, caller, <<"LA", "Bay">>, IntParam(page), IntParam(1), SortAbsent)
         \/ SearchStart(1, caller, <<"h">>, <<"LA", "Bay">>, IntParam(page), NoParam,
                        SortAbsent)
    \/ ListFindMany(1)
    \/ SearchFindMany(1)
    \/ ReadGroupBy(1)
    \/ ReadRespond(1)
    \/ \E caller \in Users :
         \/ PostFavoriteStart(2, caller, 1)
         \/ DeleteFavoriteStart(2, caller, 1)
    \/ PostFavoriteFindCafe(2)
    \/ PostFavoriteUpsert(2)
    \/ DeleteFavoriteDeleteMany(2)

SpecViewers == InitViewers /\ [][NextViewers]_vars

\* The viewer has a Favorite row for the cafe.
HasFavorite(viewer, cafeId) ==
    \E f \in favorites : f.userId = viewer /\ f.cafeId = cafeId

(***************************************************************************)
(* C21: in every list and search response isFavorited is false for every   *)
(* cafe when the request has no viewer identity; with a viewer it is true  *)
(* exactly for the cafes of the returned page for which a Favorite row     *)
(* (viewer, cafe) exists when the handler looks the favorites up, whatever *)
(* rows other users have.                                                  *)
(***************************************************************************)
C21_IsFavoritedOfViewer ==
    [][\A p \in Procs :
        (req[p].pc = "respond" /\ req'[p].pc = "done") =>
          \A i \in 1..Len(req'[p].body.cafes) :
            req'[p].body.cafes[i].isFavorited
              = (/\ req[p].viewer # Anonymous
                 /\ HasFavorite(req[p].viewer, req'[p].body.cafes[i].cafe.id))
      ]_vars

\* A list answered to "u1" shows a cafe that only "u2" has as a favorite, and
\* "u1" has a favorite of their own on another page.
C21_Witness ==
    /\ IsReadDone(1) /\ req[1].ask.caller = "u1"
    /\ Len(req[1].body.cafes) = 1
    /\ req[1].body.cafes[1].cafe.id = 2
    /\ ~req[1].body.cafes[1].isFavorited
    /\ HasFavorite("u2", 2) /\ HasFavorite("u1", 1)

(***************************************************************************)
(* Deletion: reviews deleted by their owners, by other users and by an     *)
(* admin, two requests at a time.                                          *)
(***************************************************************************)
InitDeletion ==
    /\ EmptyRateLimitStore
    /\ cafes = Catalog
    /\ reviews = {UniformReview("u1", 1, 5), UniformReview("u2", 1, 3),
                  UniformReview("u2", 2, 4)}
    /\ favorites = {}
    /\ users = Users
    /\ adminEmails = {"u1"}
    /\ req = [p \in Procs |-> Idle]
    /\ committed = NoCommitted

NextDeletion ==
    \/ \E p \in Procs :
         \/ \E caller \in Users, reviewId \in {1, 2} : DeleteReviewStart(p, caller, reviewId)
         \/ DeleteReviewFindUnique(p)
         \/ DeleteReviewDelete(p)
    \/ \E caller \in {Anonymous, "u1", "u3"}, reviewId \in {1, MissingReviewId, Null} :
         DeleteReviewStart(1, caller, reviewId)
    \/ \E allowed \in BOOLEAN, reviewId \in {1, 2} :
         AdminDeleteReview(2, "u1", allowed, reviewId)

SpecDeletion == InitDeletion /\ [][NextDeletion]_vars

\* Process p takes a step of its DELETE /api/reviews/:id request.
DeleteReviewStep(p) ==
    /\ req'[p] # req[p]
    /\ req'[p].kind = "deleteReview"

(***************************************************************************)
(* C22: DELETE /api/reviews/:id removes a review only when the requester   *)
(* is its owner.  A request (with an id) of a caller without a user is     *)
(* answered 401, a request for a review that is not stored 404, a request  *)
(* for another user's review 403 "forbidden", and none of these deletes a  *)
(* row; a step of the handler that deletes removes the one review asked    *)
(* for, which belongs to the requester.                                    *)
(***************************************************************************)
C22_OnlyOwnerDeletes ==
    [][\A p \in Procs :
        DeleteReviewStep(p) =>
          LET ask == req'[p].ask
              stored == {r \in reviews : r.id = ask.reviewId}
          IN  /\ (Free(p) /\ ask.reviewId # Null /\ ask.caller \notin users) =>
                   /\ req'[p].pc = "done"
                   /\ req'[p].body = ErrorBody(401, "unauthorized")
              /\ (req[p].pc = "findReview" /\ stored = {}) =>
                   /\ req'[p].pc = "done"
                   /\ req'[p].body = ErrorBody(404, "review not found")
              /\ (req[p].pc = "findReview" /\ \E r \in stored : r.userId # ask.caller) =>
                   /\ req'[p].pc = "done"
                   /\ req'[p].body = ErrorBody(403, "forbidden")
              /\ (req'[p].pc = "done" /\ req'[p].body.status # 200) => reviews' = reviews
              /\ reviews' # reviews =>
                   /\ req'[p].pc = "done" /\ req'[p].body.status = 200
                   /\ stored # {} /\ reviews' = reviews \ stored
                   /\ \A r \in stored : r.userId = ask.caller /\ req'[p].body.deletedReview = r
      ]_vars

\* "u1" was refused the deletion of the review of "u2", which is still stored.
C22_Witness ==
    /\ req[1].pc = "done" /\ req[1].kind = "deleteReview"
    /\ req[1].ask.caller = "u1" /\ req[1].ask.reviewId = 2
    /\ req[1].body = ErrorBody(403, "forbidden")
    /\ \E r \in reviews : r.id = 2 /\ r.userId = "u2"

(***************************************************************************)
(* Two deletions of one review: each handler serves one request, of the    *)
(* owner of the review or, on the admin route, of an admin.                *)
(***************************************************************************)
OwnerOf(reviewId) == IF reviewId = 1 THEN "u1" ELSE "u2"

NextDeleteOnce ==
    \/ \E p \in Procs, reviewId \in {1, 2, 4} :
         /\ req[p].pc = "idle"
         /\ DeleteReviewStart(p, OwnerOf(reviewId), reviewId)
    \/ \E allowed \in BOOLEAN, reviewId \in {1, 2, 4} :
         /\ req[2].pc = "idle"
         /\ AdminDeleteReview(2, "u1", allowed, reviewId)
    \/ \E p \in Procs : DeleteReviewFindUnique(p) \/ DeleteReviewDelete(p)

SpecDeleteOnce == InitDeletion /\ [][NextDeleteOnce]_vars

\* Both handlers have answered a deletion of the same review.
BothDeleted ==
    /\ \A p \in Procs : req[p].pc = "done"
    /\ req[1].ask.reviewId = req[2].ask.reviewId

Deleted200(p) ==
    /\ req[p].body.status = 200
    /\ req[p].body.deletedReview.id = req[p].ask.reviewId

NotFound404(p) == req[p].body = ErrorBody(404, "review not found")

(***************************************************************************)
(* C27, as amended: when two delete requests for the same existing review  *)
(* run at once (two of its owner, or one of its owner and one of an        *)
(* admin), the row is removed exactly once and neither answers 500: one    *)
(* request answers 200 with the deleted review and the other 404 "review   *)
(* not found", unless the admin request is over its rate limit, which then *)
(* answers 429 while the owner's request answers 200.                      *)
(***************************************************************************)
C27_DeletedExactlyOnce ==
    BothDeleted =>
      /\ ReviewById(req[1].ask.reviewId) = {}
      /\ \A p \in Procs : req[p].body.status # 500
      /\ IF req[2].body = TooManyRequests
         THEN Deleted200(1)
         ELSE \E p \in Procs : Deleted200(p) /\ NotFound404(3 - p)

\* The owner and the admin both passed their checks while the review was
\* stored; the admin deleted it and the owner's delete then found it gone.
C27_Witness ==
    /\ BothDeleted
    /\ req[1].kind = "deleteReview" /\ req[2].kind = "adminDeleteReview"
    /\ Deleted200(2) /\ NotFound404(1)

\* C27 as stated: one request answers 200 and the other 404.
C27_AsStated ==
    BothDeleted =>
      /\ ReviewById(req[1].ask.reviewId) = {}
      /\ \A p \in Procs : req[p].body.status # 500
      /\ \E p \in Procs : Deleted200(p) /\ NotFound404(3 - p)

RatingErrors ==
    {"tasteRating must be an integer from 1 to 5",
     "aestheticRating must be an integer from 1 to 5",
     "studyRating must be an integer from 1 to 5"}

(***************************************************************************)
(* C23: a POST /api/reviews with a tasteRating, aestheticRating or         *)
(* studyRating that is not an integer in 1..5 is answered 400 naming the   *)
(* field, and the rejected request creates and modifies no User row and no *)
(* Review row.                                                             *)
(***************************************************************************)
C23_RejectedReviewWritesNothing ==
    [][\A p \in Procs :
        (/\ req'[p] # req[p] /\ req'[p].pc = "done" /\ req'[p].kind = "postReview"
         /\ req'[p].body.status = 400 /\ req'[p].body.error \in RatingErrors) =>
           /\ users' = users
           /\ reviews' = reviews
      ]_vars

(***************************************************************************)
(* enforceRateLimit (src/lib/rate-limit.ts).  The routes call it with      *)
(* maxRequests 30 or 10 and windowMs 60000; the limits and the window are  *)
(* kept as named sizes here and the arithmetic is the function's own.      *)
(***************************************************************************)
PostMaxRequests == 2
AdminMaxRequests == 1
WindowMs == 2
MaxNow == 4

RateLimitOptions(key) ==
    [key |-> key,
     maxRequests |-> IF key = "reviews:post" THEN PostMaxRequests ELSE AdminMaxRequests,
     windowMs |-> WindowMs]

\* As enforceRateLimit, with the full-window test written > instead of >=.
enforceRateLimitOffByOne(existing, t, options) ==
    IF existing = NoEntry \/ t - existing.windowStart >= options.windowMs
    THEN [entry |-> [count |-> 1, windowStart |-> t],
          allowed |-> TRUE, remaining |-> options.maxRequests - 1]
    ELSE IF existing.count > options.maxRequests
         THEN [entry |-> existing, allowed |-> FALSE, remaining |-> 0]
         ELSE [entry |-> [existing EXCEPT !.count = @ + 1],
               allowed |-> TRUE,
               remaining |-> options.maxRequests - (existing.count + 1)]

\* As enforceRateLimit, with a denied call restarting the window at its own time.
enforceRateLimitSliding(existing, t, options) ==
    IF existing = NoEntry \/ t - existing.windowStart >= options.windowMs
    THEN [entry |-> [count |-> 1, windowStart |-> t],
          allowed |-> TRUE, remaining |-> options.maxRequests - 1]
    ELSE IF existing.count >= options.maxRequests
         THEN [entry |-> [existing EXCEPT !.windowStart = t],
               allowed |-> FALSE, remaining |-> 0]
         ELSE [entry |-> [existing EXCEPT !.count = @ + 1],
               allowed |-> TRUE,
               remaining |-> options.maxRequests - (existing.count + 1)]

\* The entry the call leaves in the Map for the key, and what it returns.
enforceRateLimit(existing, t, options) ==
    IF existing = NoEntry \/ t - existing.windowStart >= options.windowMs
    THEN [entry |-> [count |-> 1, windowStart |-> t],
          allowed |-> TRUE, remaining |-> options.maxRequests - 1]
    ELSE IF existing.count >= options.maxRequests
         THEN [entry |-> existing, allowed |-> FALSE, remaining |-> 0]
         ELSE [entry |-> [existing EXCEPT !.count = @ + 1],
               allowed |-> TRUE,
               remaining |-> options.maxRequests - (existing.count + 1)]

\* One call of enforceRateLimit for the key by process p, at the current time.
EnforceRateLimitCall(p, key) ==
    LET existing == rateLimitStore[key]
        result == enforceRateLimit(existing, now, RateLimitOptions(key))
    IN  /\ Free(p)
        /\ rateLimitStore' = [rateLimitStore EXCEPT ![key] = result.entry]
        /\ allowedCalls' =
              [allowedCalls EXCEPT ![key] =
                  IF ~result.allowed THEN @
                  ELSE IF result.entry.windowStart # existing.windowStart THEN 1
                  ELSE @ + 1]
        /\ req' = [req EXCEPT ![p] =
                      Done("enforceRateLimit", [key |-> key, now |-> now],
                           [allowed |-> result.allowed, remaining |-> result.remaining])]
        /\ UNCHANGED <<cafes, reviews, favorites, users, adminEmails, committed, now>>

\* Date.now() moves on between calls.
Tick ==
    /\ now < MaxNow
    /\ now' = now + 1
    /\ UNCHANGED <<cafes, reviews, favorites, users, adminEmails, req, committed,
                   rateLimitStore, allowedCalls>>

InitRateLimit ==
    /\ EmptyRateLimitStore
    /\ cafes = Catalog
    /\ reviews = {}
    /\ favorites = {}
    /\ users = Users
    /\ adminEmails = {"u1"}
    /\ req = [p \in Procs |-> Idle]
    /\ committed = NoCommitted

NextRateLimit ==
    \/ \E p \in Procs, key \in RateLimitKeys : EnforceRateLimitCall(p, key)
    \/ Tick

SpecRateLimit == InitRateLimit /\ [][NextRateLimit]_vars

\* Time moves on, and the client of each key keeps calling.
SpecRateLimitFair ==
    /\ SpecRateLimit
    /\ WF_vars(Tick)
    /\ \A key \in RateLimitKeys : WF_vars(\E p \in Procs : EnforceRateLimitCall(p, key))

MaxRequestsOf(key) == RateLimitOptions(key).maxRequests
\* The key's window is running and has allowed maxRequests calls already.
FullWithinWindow(key) ==
    /\ rateLimitStore[key] # NoEntry
    /\ allowedCalls[key] >= MaxRequestsOf(key)
    /\ now < rateLimitStore[key].windowStart + WindowMs
\* Process p holds the result of a call for the key.
Returned(p, key) ==
    /\ req[p].pc = "done"
    /\ req[p].kind = "enforceRateLimit"
    /\ req[p].ask.key = key
Denied == [allowed |-> FALSE, remaining |-> 0]

(***************************************************************************)
(* C24: with maxRequests >= 1, once maxRequests calls for a key have been  *)
(* allowed since the key's window started, every further call for the key  *)
(* before windowStart + windowMs returns allowed = false and remaining =   *)
(* 0; at most maxRequests calls are allowed per key per window and the     *)
(* stored count never exceeds maxRequests.                                 *)
(***************************************************************************)
C24_AtMostMaxRequestsPerWindow ==
    /\ [](\A key \in RateLimitKeys :
            /\ rateLimitStore[key].count <= MaxRequestsOf(key)
            /\ allowedCalls[key] <= MaxRequestsOf(key))
    /\ [][\A p \in Procs, key \in RateLimitKeys :
            (EnforceRateLimitCall(p, key) /\ FullWithinWindow(key)) =>
                req'[p].body = Denied
         ]_vars

\* A call for reviews:post is denied after PostMaxRequests calls were allowed in its window.
C24_Witness ==
    \E p \in Procs :
        /\ Returned(p, "reviews:post")
        /\ req[p].body = Denied
        /\ req[p].ask.now < rateLimitStore["reviews:post"].windowStart + WindowMs
        /\ allowedCalls["reviews:post"] = PostMaxRequests
        /\ rateLimitStore["reviews:post"].count = PostMaxRequests

\* The key's window has run out at the current time.
WindowOver(key) ==
    /\ rateLimitStore[key] # NoEntry
    /\ now >= rateLimitStore[key].windowStart + WindowMs
DeniedFor(key) == \E p \in Procs : Returned(p, key) /\ req[p].body = Denied
AllowedFor(key) == \E p \in Procs : Returned(p, key) /\ req[p].body.allowed

(***************************************************************************)
(* C25: a denied enforceRateLimit call changes neither the key's stored    *)
(* count nor its windowStart; the first call for a key at or after         *)
(* windowStart + windowMs is allowed and starts a new window with count 1; *)
(* and a client that keeps retrying while time moves on is eventually      *)
(* allowed again (for windows that end within the modelled time).          *)
(***************************************************************************)
C25_DeniedRetriesDoNotExtendWindow ==
    /\ [][\A p \in Procs, key \in RateLimitKeys :
            (EnforceRateLimitCall(p, key) /\ ~req'[p].body.allowed) =>
                rateLimitStore'[key] = rateLimitStore[key]
         ]_vars
    /\ [][\A p \in Procs, key \in RateLimitKeys :
            (EnforceRateLimitCall(p, key) /\ WindowOver(key)) =>
                /\ req'[p].body.allowed
                /\ rateLimitStore'[key] = [count |-> 1, windowStart |-> now]
         ]_vars
    /\ \A key \in RateLimitKeys :
          (DeniedFor(key) /\ rateLimitStore[key].windowStart + WindowMs <= MaxNow)
              ~> AllowedFor(key)

\* A client denied in one window of admin:delete-review is allowed in the next.
C25_Witness ==
    \E p, q \in Procs :
        /\ Returned(q, "admin:delete-review")
        /\ req[q].body = Denied
        /\ Returned(p, "admin:delete-review")
        /\ req[p].body.allowed
        /\ req[q].ask.now < req[p].ask.now
        /\ rateLimitStore["admin:delete-review"] =
              [count |-> 1, windowStart |-> req[p].ask.now]
        /\ req[p].ask.now >= WindowMs

(***************************************************************************)
(* A review submitted while another request deletes reviews of the cafe.   *)
(***************************************************************************)
NextSubmitDelete ==
    \/ \E cafeId \in {1, 2} :
         PostReviewStart(1, "u2", TRUE, ReviewBody(cafeId, 5, 4, " good "))
    \/ PostReviewFindCafe(1)
    \/ PostReviewUpsert(1)
    \/ PostReviewAggregate(1)
    \/ \E reviewId \in {2, 4} : DeleteReviewStart(2, "u2", reviewId)
    \/ DeleteReviewFindUnique(2)
    \/ DeleteReviewDelete(2)
    \/ AdminDeleteReview(2, "u1", TRUE, 1)

SpecSubmitDelete == InitDeletion /\ [][NextSubmitDelete]_vars

(***************************************************************************)
(* C26: whenever POST /api/reviews answers 201, the averageRatings of the  *)
(* response are computed over reviews that include the submitted one:      *)
(* reviewCount >= 1 and no average is null, whatever other requests submit *)
(* or delete for the same cafe meanwhile.                                  *)
(***************************************************************************)
C26_CreatedAveragesIncludeReview ==
    \A p \in Procs :
        (req[p].pc = "done" /\ req[p].kind = "postReview" /\ req[p].body.status = 201) =>
            /\ req[p].body.averageRatings.reviewCount >= 1
            /\ req[p].body.averageRatings.tasteRating # Null
            /\ req[p].body.averageRatings.aestheticRating # Null
            /\ req[p].body.averageRatings.studyRating # Null
            /\ req[p].body.averageRatings.overallRating # Null

(***************************************************************************)
(* The admin list read while another admin request hides or restores cafes.*)
(***************************************************************************)
NextAdminListRace ==
    \/ \E page \in 1..2, pageSize \in 1..2 :
         AdminListStart(1, "u1", <<>>, FALSE, IntParam(page), IntParam(pageSize))
    \/ AdminListCount(1)
    \/ AdminListFindMany(1)
    \/ \E cafeId \in {1, 2}, isHidden \in BOOLEAN : AdminPatchCafe(2, "u1", cafeId, isHidden)
    \/ \E action \in {"delete", "restore"} : AdminBulk(2, "u1", {2, NumCafes}, action)

SpecAdminListRace == InitVisibility /\ [][NextAdminListRace]_vars

(***************************************************************************)
(* C28: every admin list response is consistent with its own pagination    *)
(* metadata: the number of cafes returned is min(pageSize, total - (page - *)
(* 1) * pageSize), so a page reported with hasNextPage = true is full,     *)
(* also when cafes are hidden or restored while the list is read.          *)
(***************************************************************************)
C28_AdminPageMatchesItsMetadata ==
    \A p \in Procs :
        (req[p].pc = "done" /\ req[p].kind = "adminList" /\ req[p].body.status = 200) =>
            LET pagination == req[p].body.pagination
            IN  /\ Len(req[p].body.cafes) =
                      Min(pagination.pageSize,
                          pagination.total - (pagination.page - 1) * pagination.pageSize)
                /\ pagination.hasNextPage => Len(req[p].body.cafes) = pagination.pageSize

(***************************************************************************)
(* Imports: importCafeByQuery (src/lib) and the seed script, both an       *)
(* upsert of the Cafe row on its unique googlePlaceId.                     *)
(***************************************************************************)
MaxImportedPlaces == 1   \* places a text search returns that the table does not hold

\* The rows the unique index on googlePlaceId finds.
CafeIdsOfPlace(googlePlaceId) ==
    {id \in DOMAIN cafes : cafes[id].googlePlaceId = googlePlaceId}

NewCafeId == Cardinality(DOMAIN cafes) + 1

\* An upsert whose update branch writes the create defaults as well.
CafeUpsertBad(record) ==
    LET found == CafeIdsOfPlace(record.googlePlaceId)
        written == [name |-> record.name, city |-> record.city, isHidden |-> FALSE,
                    googlePlaceId |-> record.googlePlaceId, address |-> record.address,
                    latitude |-> record.latitude, longitude |-> record.longitude]
    IN  IF found # {}
        THEN [id \in DOMAIN cafes |-> IF id \in found THEN written ELSE cafes[id]]
        ELSE [id \in DOMAIN cafes \cup {NewCafeId} |->
                 IF id = NewCafeId THEN written ELSE cafes[id]]

\* prisma.cafe.upsert({ where: { googlePlaceId }, update, create }): the table
\* after it.  update sets name, address, city, latitude and longitude; create
\* adds a row with isHidden at its default.
CafeUpsert(record) ==
    LET found == CafeIdsOfPlace(record.googlePlaceId)
    IN  IF found # {}
        THEN [id \in DOMAIN cafes |->
                 IF id \in found
                 THEN [cafes[id] EXCEPT !.name = record.name, !.address = record.address,
                                        !.city = record.city,
                                        !.latitude = record.latitude,
                                        !.longitude = record.longitude]
                 ELSE cafes[id]]
        ELSE [id \in DOMAIN cafes \cup {NewCafeId} |->
                 IF id = NewCafeId
                 THEN [name |-> record.name, city |-> record.city, isHidden |-> FALSE,
                       googlePlaceId |-> record.googlePlaceId, address |-> record.address,
                       latitude |-> record.latitude, longitude |-> record.longitude]
                 ELSE cafes[id]]

\* The null toCafeRecord returns, and the loop ending without a result to import.
NoCafeRecord == [googlePlaceId |-> Null]
NoPlace == [place_id |-> Null]

\* toCafeRecord: null without a place id, a name or coordinates.
toCafeRecord(place) ==
    IF place.place_id = Null \/ place.name = <<>> \/ place.lat = Null \/ place.lng = Null
    THEN NoCafeRecord
    ELSE [googlePlaceId |-> place.place_id, name |-> place.name,
          address |-> place.formatted_address,
          latitude |-> place.lat, longitude |-> place.lng, types |-> place.types]

\* Whether the loop of importCafeByQuery passes over the result: no record, a
\* banned word in a cafe the query does not name, no cafe or coffee type, no city.
ImportSkips(place, cityOverride) ==
    \/ toCafeRecord(place) = NoCafeRecord
    \/ place.bannedWord /\ ~place.isExplicitlyListed
    \/ place.types \cap {"cafe", "coffee_shop"} = {}
    \/ (cityOverride = NullText /\ place.inferredCity = NullText)

RECURSIVE FirstImportable(_, _)
\* The first result of the text search the loop does not pass over, or NoPlace.
FirstImportable(results, cityOverride) ==
    IF results = <<>> THEN NoPlace
    ELSE IF ~ImportSkips(Head(results), cityOverride) THEN Head(results)
    ELSE FirstImportable(Tail(results), cityOverride)

\* importCafeByQuery with the results of the text search as its input.
ImportCafeByQuery(p, results, cityOverride) ==
    /\ Free(p)
    /\ LET place == FirstImportable(results, cityOverride)
           ask == [results |-> results, cityOverride |-> cityOverride]
       IN  IF place = NoPlace
           THEN /\ req' = [req EXCEPT ![p] = Done("import", ask, [imported |-> FALSE])]
                /\ UNCHANGED cafes
           ELSE LET cafe == toCafeRecord(place)
                    city == IF cityOverride # NullText THEN cityOverride ELSE place.inferredCity
                IN  /\ cafes' = CafeUpsert([cafe EXCEPT !.types = {}] @@ [city |-> city])
                    /\ req' = [req EXCEPT ![p] =
                                 Done("import", ask,
                                      [imported |-> TRUE, cafeName |-> cafe.name,
                                       googlePlaceId |-> cafe.googlePlaceId])]
    /\ UNCHANGED <<reviews, favorites, users, adminEmails, committed,
                   rateLimitStore, now, allowedCalls>>

\* One round of the loop of the seed script: the upsert of one seed cafe.
SeedUpsert(p, cafe) ==
    /\ Free(p)
    /\ cafes' = CafeUpsert(cafe)
    /\ req' = [req EXCEPT ![p] = Done("seed", cafe, [seeded |-> TRUE])]
    /\ UNCHANGED <<reviews, favorites, users, adminEmails, committed,
                   rateLimitStore, now, allowedCalls>>

\* Result n of a text search: the place as first recorded or after it has been
\* renamed and moved, whole or with one of the flaws the loop passes over.
TextSearchResult(n, moved, flaw) ==
    [place_id |-> IF flaw = "noPlaceId" THEN Null ELSE PlaceId(n),
     name |-> IF moved THEN NameCafe ELSE CatalogName(n),
     formatted_address |-> IF moved THEN AddressOf(n + 10) ELSE AddressOf(n),
     lat |-> IF moved THEN n + 10 ELSE n,
     lng |-> 0 - n,
     types |-> IF flaw = "notCafe" THEN {"store"} ELSE {"cafe", "food"},
     bannedWord |-> flaw = "banned",
     isExplicitlyListed |-> FALSE,
     inferredCity |-> IF flaw = "noCity" THEN NullText
                      ELSE IF moved THEN "NYC" ELSE CatalogCity(n)]

ImportFlaws == {"noPlaceId", "banned", "notCafe", "noCity"}
ImportedPlaces == {1} \cup ((NumCafes + 1)..(NumCafes + MaxImportedPlaces))

ImportResults ==
    {<<>>}
      \cup {<<TextSearchResult(n, moved, "none")>> : n \in ImportedPlaces, moved \in BOOLEAN}
      \cup {<<TextSearchResult(1, TRUE, flaw)>> : flaw \in ImportFlaws}
      \cup {<<TextSearchResult(1, FALSE, flaw), TextSearchResult(1, TRUE, "none")>> :
               flaw \in ImportFlaws}

\* A cafe of the seed list.
SeedCafe(n) ==
    [name |-> NameMatcha, city |-> "NYC", address |-> AddressOf(n + 20),
     googlePlaceId |-> PlaceId(n), latitude |-> n + 20, longitude |-> 0 - n]

NextImport ==
    \/ \E results \in ImportResults, cityOverride \in {NullText, "LA"} :
         ImportCafeByQuery(1, results, cityOverride)
    \/ \E n \in {1, NumCafes + 1} : SeedUpsert(1, SeedCafe(n))
    \/ \E isHidden \in BOOLEAN : AdminPatchCafe(2, "u1", 1, isHidden)

SpecImport == InitModeration /\ [][NextImport]_vars

\* A step of an import: importCafeByQuery or one upsert of the seed script has
\* answered on process 1.
ImportStep ==
    /\ req'[1] # req[1]
    /\ req'[1].pc = "done"
    /\ req'[1].kind \in {"import", "seed"}

ImportedFields == {"name", "address", "city", "latitude", "longitude"}

(***************************************************************************)
(* C29: an import of a place whose googlePlaceId the table already holds   *)
(* creates no second row and changes only name, address, city and the      *)
(* coordinates of the row: every cafe keeps its id, its googlePlaceId, its *)
(* isHidden value, its reviews and its favorites, a row is added only for  *)
(* a googlePlaceId that was not there, and no two cafes ever share a       *)
(* googlePlaceId.                                                          *)
(***************************************************************************)
C29_ImportKeepsRowAndIsHidden ==
    /\ [](\A a, b \in DOMAIN cafes :
            cafes[a].googlePlaceId = cafes[b].googlePlaceId => a = b)
    /\ [][ImportStep =>
            /\ DOMAIN cafes \subseteq DOMAIN cafes'
            /\ \A id \in DOMAIN cafes :
                 \A field \in DOMAIN cafes[id] \ ImportedFields :
                    cafes'[id][field] = cafes[id][field]
            /\ \A id \in DOMAIN cafes' \ DOMAIN cafes :
                 /\ CafeIdsOfPlace(cafes'[id].googlePlaceId) = {}
                 /\ DOMAIN cafes' = DOMAIN cafes \cup {id}
            /\ reviews' = reviews
            /\ favorites' = favorites
         ]_vars

\* A hidden cafe has been imported again, renamed and moved, and is still hidden;
\* its review and the favorite of it are still there.
C29_Witness ==
    /\ req[1].pc = "done" /\ req[1].kind = "import" /\ req[1].body.imported
    /\ req[1].body.googlePlaceId = PlaceId(1)
    /\ cafes[1].isHidden
    /\ cafes[1].name = NameCafe /\ cafes[1].address = AddressOf(11)
    /\ cafes[1].city = "NYC"
    /\ Cardinality(DOMAIN cafes) = NumCafes
    /\ \E r \in reviews : r.cafeId = 1
    /\ \E f \in favorites : f.cafeId = 1

(***************************************************************************)
(* The list and the search read while reviews are submitted and deleted.   *)
(***************************************************************************)
NextReadWhileReviewed ==
    \/ ListStart(1, Anonymous, <<>>, NoParam, NoParam, SortAbsent)
    \/ SearchStart(1, Anonymous, <<"a">>, <<>>, NoParam, NoParam, "popularity")
    \/ ListFindMany(1)
    \/ SearchFindMany(1)
    \/ ReadGroupBy(1)
    \/ ReadRespond(1)
    \/ \E rating \in {1, 5} :
         PostReviewStart(2, "u2", TRUE, ReviewBody(NumCafes, rating, Null, ""))
    \/ PostReviewFindCafe(2)
    \/ PostReviewUpsert(2)
    \/ PostReviewAggregate(2)
    \/ DeleteReviewStart(2, "u2", 4)
    \/ DeleteReviewFindUnique(2)
    \/ DeleteReviewDelete(2)

SpecReadWhileReviewed == InitDeletion /\ [][NextReadWhileReviewed]_vars

\* The cafes of a 200 response of the list or the search held by process p.
ScoredCafes(p) ==
    IF req[p].pc = "done" /\ req[p].kind \in {"list", "search"} /\ req[p].body.status = 200
    THEN {req[p].body.cafes[i].cafe : i \in 1..Len(req[p].body.cafes)}
    ELSE {}

(***************************************************************************)
(* C30: in every list and search response a cafe's weightedRating is null  *)
(* exactly when its reviewCount is 0; otherwise it lies between 3 and the  *)
(* cafe's averageRating inclusive, hence within 1..5, whatever reviews are *)
(* written while the request runs.                                         *)
(***************************************************************************)
C30_WeightedBetweenPriorAndAverage ==
    \A p \in Procs : \A cafe \in ScoredCafes(p) :
        /\ (cafe.weightedRating = Null) <=> (cafe.reviewCount = 0)
        /\ cafe.reviewCount > 0 =>
              /\ cafe.averageRating # Null
              /\ Min(100 * priorRating, cafe.averageRating) <= cafe.weightedRating
              /\ cafe.weightedRating <= Max(100 * priorRating, cafe.averageRating)
              /\ cafe.weightedRating \in 100..500

\* One response with an unreviewed cafe, a cafe whose only review (all 1s) was
\* written while the request ran, and a cafe rated above 3.
C30_Witness ==
    \E a, b, c \in ScoredCafes(1) :
        /\ a.reviewCount = 0 /\ a.weightedRating = Null
        /\ b.reviewCount = 1 /\ b.averageRating = 100
        /\ b.weightedRating > 100 /\ b.weightedRating < 300
        /\ c.averageRating > 300 /\ c.weightedRating > 300
        /\ c.weightedRating < c.averageRating
        /\ req[2].pc = "aggregate"
====
